---- MODULE Spec2Model ----
(***************************************************************************)
(* Sentinel-LEWS: the alerting, SMS, Kalman-fusion, saturation and sensor  *)
(* fusion parts of the edge landslide early-warning pipeline.              *)
(*                                                                         *)
(* Numbers.  Risk values are integers in hundredths (0.75 is 75).  Strings *)
(* are represented by what the code does with them: their length and the   *)
(* fields they were formatted from.  Wall-clock time is in whole seconds.  *)
(***************************************************************************)
EXTENDS Integers, Sequences, FiniteSets, TLC

(***************************************************************************)
(* Bounds of the model                                                     *)
(***************************************************************************)
\* number of columns of the risk grid (the grid has three rows)
GridCols == 4
\* the wall clock stays within MinClock .. MinClock + MaxHours * 3600
MaxHours == 2
\* at most this many cells of a risk grid are below the alerting thresholds
MaxCold == 4
\* at most this many messages are kept in the SMS simulator's outbox
MaxSms == 1
\* the binary digits kept after the point by the filter arithmetic
FracBits == 12
\* the most readings handed to an anomaly filter in one call
MaxSensors == 6
\* update calls made on a fuser in the side-by-side specification
MaxUpdates == 3
\* /predict requests issued to the inference server
MaxRequests == 2
\* cycles of the supervisor that write the status file
MaxCycles == 4

(***************************************************************************)
(* Program constants                                                       *)
(***************************************************************************)
\* config.RISK_THRESHOLD = 0.75, in hundredths
RISK_THRESHOLD == 75
\* config.SLOPE_THRESHOLD_DEG, degrees
SLOPE_THRESHOLD_DEG == 10
\* config.MODEL_BIAS = -8.5, in thousandths
MODEL_BIAS == -8500
\* config.MIN_CLUSTER_SIZE
MIN_CLUSTER_SIZE == 10
\* config.ALERT_COOLDOWN_SECONDS
ALERT_COOLDOWN_SECONDS == 3600
\* AlertEngine.secondary_thresh = 0.6, in hundredths
secondary_thresh == 60
\* AlertEngine.cluster_min_size
cluster_min_size == 10
\* the SMS length limit of generate_message and trigger_alert
SmsLimit == 160
\* config.MAX_VALID_RAINFALL_MM_HR, config.CELL_SIZE_M
MAX_VALID_RAINFALL_MM_HR == 300
CELL_SIZE_M == 100

VARIABLES
    \* --- the risk grid handed to the alerting code ---
    risk_map,
    \* --- AlertSystem (core/alerts.py) ---
    clock,              \* the wall clock read by datetime.now()
    last_alert_time,
    alert_outbox,
    result,             \* what check_alert_conditions returned last
    prev_text,          \* the text it returned the time before (history)
    fill,               \* the locals of the last check_alert_conditions call
    status,             \* the record run_cycle wrote last
    \* --- AlertEngine / SMSSimulator (offline/) ---
    engine_called,      \* whether evaluate has been called
    engine_alerts,      \* the alerts list evaluate returned last
    sms_outbox,         \* SMSSimulator.outbox
    sms_last,           \* the message generate_message returned last
    \* --- KalmanFuser (fusion/kalman_fusion.py) ---
    kf_x,               \* self.x, the state estimate of every cell
    kf_P,               \* self.P, the covariance of every cell
    measurement_grid,   \* the measurement grid of the update calls
    source_type,        \* the source type of the update calls
    kf_prev,            \* x and P before the last update and its gain (history)
    kf_updated,         \* whether update has been called
    \* --- the live loop (scripts/run_live_sim.py) ---
    current_saturation, \* the saturation of every cell, in thousandths
    max_rain,           \* the driving rainfall of the last cycle, mm/hr
    sat_prev,           \* current_saturation before the last cycle (history)
    live_cycled,        \* whether a cycle has run
    \* --- rainfall fusion (core/sensor_fuse.py, geofuncs.py, fusion.py) ---
    fuse_op,            \* the fusion call made last: "none", "downscale", "idw"
    fuse_in,            \* the readings handed to it
    fuse_kept,          \* the readings its anomaly filter kept
    fuse_base,          \* the background grid (or default rain) handed to it
    fuse_grid,          \* the rainfall grid it returned
    fuse_raised,        \* whether it raised
    \* --- ingestion (ingestion/loader.py, main.py) ---
    dataset,            \* what load_shimla_data was given and what it did
    sensor_file,        \* the live sensor file of the last cycle
    main_pc,            \* where main's loop is: "start", "sleep_2", "sleep_5", "stopped"
    main_error,         \* the exception the last cycle raised, "none" if none
    \* --- soil parameters (preprocess/soil_props.py) ---
    soil_in,            \* the cell handed to estimate_soil_parameters
    soil_out,           \* the columns it appended and the error it raised
    \* --- rainfall downscaling (preprocess/downscale.py) ---
    coarse_rain,        \* the coarse rainfall grid handed to downscale_rainfall
    dem,                \* the elevation grid handed to it
    mode,               \* its mode: "none" before the call, "deterministic", "stochastic"
    rain_corrected,     \* rain_fine after the mass balance correction (history)
    rain_fine,          \* the grid it returned
    \* --- factor of safety (models/fisical_fos.py) ---
    fos_in,             \* the cell handed to compute_fos_vectorized
    fos_out,            \* the water height, stresses and factor of safety it computed
    \* --- two KalmanFuser objects fed side by side (fusion/kalman_fusion.py) ---
    kf2_x,              \* self.x of the second fuser
    kf2_P,              \* self.P of the second fuser
    measurement_grid2,  \* the measurement grid of the second fuser's update calls
    kf_cell,            \* the cell whose measurements the two fusers share
    kf_sources,         \* the source types of the update calls so far (history)
    \* --- the inference server (inference/server.py, inference/runner.py) ---
    req_pc,             \* where each /predict request is in its handler
    req_local,          \* the locals of each request's update call
    kf_ver,             \* how many times self.x and self.P of the runner's fuser were assigned (history)
    \* --- the status file and the dashboard (main.py, web/app.py) ---
    status_file,        \* system_status.json: absent, empty, or the record of a cycle
    cycle_pc,           \* where run_cycle is in writing it
    cycle_no,           \* the cycles whose write has begun
    dash_pc,            \* where a GET /api/status is
    dash_resp,          \* what GET /api/status returned last
    \* --- the supervisor's static data (main.py) and the risk engine (core/risk_engine.py) ---
    slope_npy,          \* slope.npy, degrees
    soil_npy,           \* soil_stability.npy, hundredths
    static_mask         \* self.static_mask, the cells the risk engine processes

alertVars == <<clock, last_alert_time, alert_outbox, result, prev_text, fill, status>>
engineVars == <<engine_called, engine_alerts, sms_outbox, sms_last>>
kalmanVars == <<kf_x, kf_P, measurement_grid, source_type, kf_prev, kf_updated>>
liveVars == <<current_saturation, max_rain, sat_prev, live_cycled>>
fuseVars == <<fuse_op, fuse_in, fuse_kept, fuse_base, fuse_grid, fuse_raised>>
ingestVars == <<dataset, sensor_file, main_pc, main_error>>
soilVars == <<soil_in, soil_out>>
downscaleVars == <<coarse_rain, dem, mode, rain_corrected, rain_fine>>
fosVars == <<fos_in, fos_out>>
twinVars == <<kf2_x, kf2_P, measurement_grid2, kf_cell, kf_sources>>
serverVars == <<req_pc, req_local, kf_ver>>
statusVars == <<status_file, cycle_pc, cycle_no, dash_pc, dash_resp>>
riskVars == <<slope_npy, soil_npy, static_mask>>
vars == <<risk_map, alertVars, engineVars, kalmanVars, liveVars, fuseVars, ingestVars, soilVars, downscaleVars, fosVars, twinVars, serverVars, statusVars, riskVars>>

(***************************************************************************)
(* Small helpers                                                           *)
(***************************************************************************)
Min(a, b) == IF a < b THEN a ELSE b
Max(a, b) == IF a > b THEN a ELSE b
Abs(a) == IF a < 0 THEN -a ELSE a

RECURSIVE SumSeq(_)
SumSeq(s) == IF s = <<>> THEN 0 ELSE s[1] + SumSeq(Tail(s))

RECURSIVE SumOver(_, _)
\* the sum of f[e] over the elements e of the finite set S
SumOver(S, f) ==
    IF S = {} THEN 0
    ELSE LET e == CHOOSE x \in S : TRUE IN f[e] + SumOver(S \ {e}, f)

\* the largest integer whose square is at most n, searched between lo and hi
RECURSIVE ISqrtIn(_, _, _)
ISqrtIn(n, lo, hi) ==
    IF lo >= hi THEN lo
    ELSE LET mid == (lo + hi + 1) \div 2 IN
         IF mid * mid <= n THEN ISqrtIn(n, mid, hi) ELSE ISqrtIn(n, lo, mid - 1)
ISqrt(n) == ISqrtIn(n, 0, 46340)

\* number of decimal digits of a natural number (str(n) for n >= 0)
Digits(n) == IF n < 10 THEN 1 ELSE IF n < 100 THEN 2 ELSE IF n < 1000 THEN 3 ELSE 4

(***************************************************************************)
(* The grid                                                                *)
(***************************************************************************)
Rows == 0 .. 2
Cols == 0 .. (GridCols - 1)
Cells == Rows \X Cols

\* the offsets of the eight cells around a cell
Offsets8 == << <<-1, 0>>, <<1, 0>>, <<0, -1>>, <<0, 1>>,
               <<-1, -1>>, <<-1, 1>>, <<1, -1>>, <<1, 1>> >>

\* the four neighbour offsets, in the order the flood fill visits them
Offsets == << <<-1, 0>>, <<1, 0>>, <<0, -1>>, <<0, 1>> >>

(***************************************************************************)
(* AlertSystem (core/alerts.py)                                            *)
(***************************************************************************)
\* length of the literal text of the trigger_alert message (without the
\* cluster size and the HH:MM time)
AlertLiteralLen == 124

\* high_risk_mask = (risk_map > RISK_THRESHOLD); points = its coordinates
HighRiskPoints(rm) == {c \in Cells : rm[c] > RISK_THRESHOLD}

RECURSIVE PushNeighbors(_, _, _, _, _)
\* the loop over the four neighbours of the popped cell cur, from offset i on
PushNeighbors(points, cur, i, stack, visited) ==
    IF i > Len(Offsets) THEN [stack |-> stack, visited |-> visited]
    ELSE LET n == <<cur[1] + Offsets[i][1], cur[2] + Offsets[i][2]>> IN
         IF n \in points /\ n \notin visited
         THEN PushNeighbors(points, cur, i + 1, Append(stack, n), visited \cup {n})
         ELSE PushNeighbors(points, cur, i + 1, stack, visited)

RECURSIVE FloodFill(_, _, _, _)
\* while stack: pop, count the cell, push its unvisited high-risk neighbours
FloodFill(points, stack, visited, size) ==
    IF stack = <<>> THEN [size |-> size, visited |-> visited]
    ELSE LET cur == stack[Len(stack)]
             pn == PushNeighbors(points, cur, 1,
                                 SubSeq(stack, 1, Len(stack) - 1), visited)
         IN FloodFill(points, pn.stack, pn.visited, size + 1)

RECURSIVE ScanPoints(_, _, _, _)
\* for pt in points: the iteration order of a Python set is arbitrary; the
\* sizes found do not depend on it.  sizes lists current_cluster_size of every
\* cluster started.
ScanPoints(points, todo, visited, sizes) ==
    IF todo = {} THEN [visited |-> visited, sizes |-> sizes]
    ELSE LET pt == CHOOSE p \in todo : TRUE IN
         IF pt \in visited
         THEN ScanPoints(points, todo \ {pt}, visited, sizes)
         ELSE LET ff == FloodFill(points, <<pt>>, visited \cup {pt}, 0) IN
              ScanPoints(points, todo \ {pt}, ff.visited, Append(sizes, ff.size))

RECURSIVE MaxSeq(_)
MaxSeq(s) == IF s = <<>> THEN 0 ELSE Max(s[1], MaxSeq(Tail(s)))

\* the early return of check_alert_conditions: fewer high-risk cells than a
\* cluster needs
TooFewPoints(points) == Cardinality(points) < MIN_CLUSTER_SIZE

\* the locals of check_alert_conditions after its flood fill
Fill(rm) ==
    LET points == HighRiskPoints(rm) IN
    IF TooFewPoints(points)
    THEN [points |-> points, ran |-> FALSE, visited |-> {}, sizes |-> <<>>,
          num_clusters |-> 0, max_cluster_size |-> 0]
    ELSE LET sp == ScanPoints(points, points, {}, <<>>) IN
         [points |-> points, ran |-> TRUE, visited |-> sp.visited,
          sizes |-> sp.sizes, num_clusters |-> Len(sp.sizes),
          max_cluster_size |-> MaxSeq(sp.sizes)]

\* max_cluster_size >= MIN_CLUSTER_SIZE
ClusterQualifies(f) == f.ran /\ f.max_cluster_size >= MIN_CLUSTER_SIZE

\* the returned messages
MsgNone == [text |-> "", cluster_size |-> 0, before |-> 0, len |-> 0]
MsgCooldown == [text |-> "COOLDOWN", cluster_size |-> 0, before |-> 0, len |-> 8]

\* the alert text of trigger_alert, cut to 160 characters (msg[:160]); before
\* is the HH:MM of now + 4 hours, as minutes of the day
AlertMsg(cluster_size, now) ==
    [text |-> "ALERT", cluster_size |-> cluster_size,
     before |-> ((now + 4 * 3600) \div 60) % (24 * 60),
     len |-> Min(AlertLiteralLen + Digits(cluster_size) + 5, SmsLimit)]

\* a cooldown check on the distance between the two clock readings
CooldownActiveAbs(now, last) == Abs(now - last) < ALERT_COOLDOWN_SECONDS

\* a cooldown check that also suppresses at exactly the cooldown interval
CooldownActiveInclusive(now, last) == (now - last) <= ALERT_COOLDOWN_SECONDS

\* the cooldown check of trigger_alert
CooldownActive(now, last) == (now - last) < ALERT_COOLDOWN_SECONDS

\* a trigger_alert that restarts the cooldown when it suppresses an alert
trigger_alert_extending(cluster_size, now, last, outbox) ==
    IF CooldownActive(now, last)
    THEN [alert |-> FALSE, msg |-> MsgCooldown, last |-> now, outbox |-> outbox]
    ELSE LET msg == AlertMsg(cluster_size, now) IN
         [alert |-> TRUE, msg |-> msg, last |-> now,
          outbox |-> Append(outbox, [ts |-> now, msg |-> msg])]

\* a trigger_alert that reports a suppressed alert as an empty message
trigger_alert_silent(cluster_size, now, last, outbox) ==
    IF CooldownActive(now, last)
    THEN [alert |-> FALSE, msg |-> MsgNone, last |-> last, outbox |-> outbox]
    ELSE LET msg == AlertMsg(cluster_size, now) IN
         [alert |-> TRUE, msg |-> msg, last |-> now,
          outbox |-> Append(outbox, [ts |-> now, msg |-> msg])]

\* trigger_alert(cluster_size) at wall-clock time now: the returned pair and
\* the new last_alert_time and alert_outbox
trigger_alert(cluster_size, now, last, outbox) ==
    IF CooldownActive(now, last)
    THEN [alert |-> FALSE, msg |-> MsgCooldown, last |-> last, outbox |-> outbox]
    ELSE LET msg == AlertMsg(cluster_size, now) IN
         [alert |-> TRUE, msg |-> msg, last |-> now,
          outbox |-> Append(outbox, [ts |-> now, msg |-> msg])]

\* check_alert_conditions(risk_map) at wall-clock time now
check_alert_conditions(rm, now, last, outbox) ==
    LET f == Fill(rm) IN
    LET r == IF ClusterQualifies(f)
             THEN trigger_alert(f.max_cluster_size, now, last, outbox)
             ELSE [alert |-> FALSE, msg |-> MsgNone, last |-> last, outbox |-> outbox]
    IN [alert |-> r.alert, msg |-> r.msg, last |-> r.last, outbox |-> r.outbox,
        fill |-> f]

RECURSIVE MaxOver(_, _)
\* np.max(risk_map)
MaxOver(S, f) ==
    IF S = {} THEN 0
    ELSE LET e == CHOOSE x \in S : TRUE IN Max(f[e], MaxOver(S \ {e}, f))

\* the status record run_cycle writes (timestamp, and the fields that do not
\* depend on the cycle's inputs, left out)
StatusRecord(rm, now, r) ==
    [timestamp |-> now, max_risk |-> MaxOver(Cells, rm),
     alert_active |-> r.alert, last_alert_msg |-> r.msg]

NoStatus == [timestamp |-> 0, max_risk |-> 0, alert_active |-> FALSE,
             last_alert_msg |-> MsgNone]
NoFill == [points |-> {}, ran |-> FALSE, visited |-> {}, sizes |-> <<>>,
           num_clusters |-> 0, max_cluster_size |-> 0]
NoResult == [alert |-> FALSE, msg |-> MsgNone, called |-> FALSE]

(***************************************************************************)
(* SMSSimulator (offline/sms_simulator.py)                                 *)
(***************************************************************************)
\* length of the literal text of base_msg:
\* ":" + " HIGH RISK " + " (" + "," + "). Evac:" + ". Info:"
SmsLiteralLen == 30

\* len(s[a:b]) for 0 <= a <= b
SliceLen(n, a, b) == Max(Min(n, b) - a, 0)

\* len(s[:k]): a negative k counts from the end, as Python slices do
PrefixLen(n, k) == IF k >= 0 THEN Min(n, k) ELSE Max(n + k, 0)

\* len("%.2f" % v) for v in hundredths
Fmt2fLen(v) == (IF v < 0 THEN 1 ELSE 0) + Digits(Abs(v) \div 100) + 3

\* len(base_msg) for the given field lengths
BaseMsgLen(district, ts, sector, lat, lon, zones, url) ==
    district + ts + sector + lat + lon + zones + url + SmsLiteralLen

\* zones_str after "Truncate zones first": zones_str[:available-3] + ".."
TruncatedZonesLen(base_len, zones) ==
    LET available == SmsLimit - (base_len - zones) IN
    PrefixLen(zones, available - 3) + 2

\* generate_message: the message built from fields of the given lengths
\* (district_code, timestamp_str, sector_id, the two formatted coordinates,
\* ",".join(zones) and url_code).  zones is the length the zone list has in
\* the returned message, zones_in the length it had in the input.
generate_message(district, timestamp, sector, lat, lon, zones, url) ==
    LET ts == SliceLen(timestamp, 11, 16)
        base_len == BaseMsgLen(district, ts, sector, lat, lon, zones, url)
        cut == base_len > SmsLimit
        zones_out == IF cut THEN TruncatedZonesLen(base_len, zones) ELSE zones
    IN [district |-> district, ts |-> ts, sector |-> sector, lat |-> lat,
        lon |-> lon, zones_in |-> zones, zones |-> zones_out, cut |-> cut,
        url |-> url,
        len |-> BaseMsgLen(district, ts, sector, lat, lon, zones_out, url)]

NoSms == [district |-> 0, ts |-> 0, sector |-> 0, lat |-> 0, lon |-> 0,
          zones_in |-> 0, zones |-> 0, cut |-> FALSE, url |-> 0, len |-> 0]

(***************************************************************************)
(* AlertEngine (offline/alert_logic.py)                                    *)
(***************************************************************************)
\* mod_risk_mask = risk_grid >= self.secondary_thresh
ModRiskMask(rg) == {c \in Cells : rg[c] >= secondary_thresh}

Adjacent4(a, b) == Abs(a[1] - b[1]) + Abs(a[2] - b[2]) = 1
Neighbours4 == [c \in Cells |-> {d \in Cells : Adjacent4(c, d)}]

RECURSIVE Grow(_, _, _)
\* the cells of mask joined to S by horizontal and vertical steps inside mask;
\* F is the part of S whose neighbours have not been looked at yet
Grow(F, S, mask) ==
    IF F = {} THEN S
    ELSE LET N == (mask \cap UNION {Neighbours4[f] : f \in F}) \ S IN
         Grow(N, S \cup N, mask)

\* raster order of the cells (row-major, as scipy.ndimage.label scans)
RasterBefore(a, b) == a[1] < b[1] \/ (a[1] = b[1] /\ a[2] <= b[2])
FirstCell(S) == CHOOSE c \in S : \A d \in S : RasterBefore(c, d)

RECURSIVE label(_)
\* scipy.ndimage.label(mask) with its default (4-connected) structure: the
\* features, numbered in raster order of their first cell
label(mask) ==
    IF mask = {} THEN <<>>
    ELSE LET first == FirstCell(mask)
             comp == Grow({first}, {first}, mask)
         IN
         <<comp>> \o label(mask \ comp)

\* counts >= self.cluster_min_size
ValidCluster(cells) == Cardinality(cells) >= cluster_min_size

\* (int(np.mean(indices[0])), int(np.mean(indices[1])))
Centroid(cells) ==
    <<SumOver(cells, [c \in Cells |-> c[1]]) \div Cardinality(cells),
      SumOver(cells, [c \in Cells |-> c[2]]) \div Cardinality(cells)>>

\* the latitude and longitude grids handed to evaluate, in hundredths of a
\* degree (a grid around 31.10 N, 77.10 E)
lat_grid == [c \in Cells |-> 3110 + c[1]]
lon_grid == [c \in Cells |-> 7710 + c[2]]

\* the alert evaluate builds for feature number cluster_id
ClusterAlert(rg, cells, cluster_id, timestamp) ==
    LET center == Centroid(cells)
        \* sector_id = f"SEC-{r//10}-{c//10}", zones = [f"Z{r}"],
        \* url_code = "CODE" + str(cluster_id); district_code = "DST"
        sector == 4 + Digits(center[1] \div 10) + 1 + Digits(center[2] \div 10)
        msg == generate_message(3, timestamp, sector,
                                Fmt2fLen(lat_grid[center]), Fmt2fLen(lon_grid[center]),
                                1 + Digits(center[1]), 4 + Digits(cluster_id))
    IN [type |-> "CLUSTER", center |-> center, cells |-> cells,
        risk_avg |-> SumOver(cells, rg) \div Cardinality(cells),
        size |-> Cardinality(cells), sms |-> msg]

RECURSIVE EvaluateFrom(_, _, _, _)
\* for cluster_id in valid_clusters: ... alerts.append(...)
EvaluateFrom(rg, features, cluster_id, timestamp) ==
    IF cluster_id > Len(features) THEN <<>>
    ELSE (IF ValidCluster(features[cluster_id])
          THEN <<ClusterAlert(rg, features[cluster_id], cluster_id, timestamp)>>
          ELSE <<>>)
         \o EvaluateFrom(rg, features, cluster_id + 1, timestamp)

\* AlertEngine.evaluate(risk_grid, lat_grid, lon_grid, timestamp): alerts
evaluate(rg, timestamp) == EvaluateFrom(rg, label(ModRiskMask(rg)), 1, timestamp)

RECURSIVE SmsOf(_)
\* the messages of a list of alerts, in order (what evaluate appended to
\* sms_sender.outbox)
SmsOf(alerts) == IF alerts = <<>> THEN <<>> ELSE <<alerts[1].sms>> \o SmsOf(Tail(alerts))

(***************************************************************************)
(* KalmanFuser (fusion/kalman_fusion.py)                                   *)
(***************************************************************************)
\* The filter's floating-point quantities are held as multiples of
\* 2^-FracBits.  A product or a quotient is rounded to the nearest multiple,
\* as floating-point arithmetic rounds it to the nearest representable value;
\* sums and differences are exact.
Scale == 2 ^ FracBits

\* n / d rounded to the nearest integer (halves upwards), for d > 0
RoundDiv(n, d) == (n + d \div 2) \div d

\* the cells of grid_shape
KCells == 1 .. 2

\* self.x = np.zeros(grid_shape)
x0 == [i \in KCells |-> 0]
\* self.P = np.ones(grid_shape) * 10.0
P0 == [i \in KCells |-> 10 * Scale]
\* self.Q = 0.5
Q == Scale \div 2
\* self.R_sat = 2.0
R_sat == 2 * Scale
\* self.R_gauge = 0.5
R_gauge == Scale \div 2

SourceTypes == {"satellite", "radar", "gauge"}

\* the gauge noise for the source type 'gauge' only
MeasurementNoiseGaugeOnly(src) == IF src = "gauge" THEN R_gauge ELSE R_sat

\* R = self.R_sat if source_type in ['satellite', 'radar'] else self.R_gauge
MeasurementNoise(src) == IF src \in {"satellite", "radar"} THEN R_sat ELSE R_gauge

\* P_pred = self.P + self.Q
Predict(p) == p + Q

KalmanGainPosterior(p_pred, r) == RoundDiv((p_pred - Q) * Scale, (p_pred - Q) + r)

\* K = P_pred / (P_pred + R)
KalmanGain(p_pred, r) == RoundDiv(p_pred * Scale, p_pred + r)

\* y = measurement_grid - x_pred
Innovation(zv, x_pred) == zv - x_pred

StateUpdateAway(x_pred, gain, innov) == x_pred - RoundDiv(gain * innov, Scale)

\* self.x = x_pred + K * y
StateUpdate(x_pred, gain, innov) == x_pred + RoundDiv(gain * innov, Scale)

CovarianceNoGain(gain, p_pred) == p_pred

\* self.P = (1.0 - K) * P_pred
CovarianceUpdate(gain, p_pred) == RoundDiv((Scale - gain) * p_pred, Scale)

\* update with the innovation taken against the mean of the measurement grid
update_coupled(xs, ps, zs, src) ==
    LET r == MeasurementNoise(src)
        gain == [i \in KCells |-> KalmanGain(Predict(ps[i]), r)]
        zbar == RoundDiv(SumSeq([i \in KCells |-> zs[i] + 2 * Scale]), Cardinality(KCells)) - 2 * Scale
    IN [x |-> [i \in KCells |->
                 StateUpdate(xs[i], gain[i], Innovation(zbar, xs[i]))],
        P |-> [i \in KCells |-> CovarianceUpdate(gain[i], Predict(ps[i]))],
        K |-> gain]

\* KalmanFuser.update(measurement_grid, source_type) on the state (xs, ps):
\* the new self.x and self.P, cell by cell
update(xs, ps, zs, src) ==
    LET r == MeasurementNoise(src)
        gain == [i \in KCells |-> KalmanGain(Predict(ps[i]), r)]
    IN [x |-> [i \in KCells |->
                 StateUpdate(xs[i], gain[i], Innovation(zs[i], xs[i]))],
        P |-> [i \in KCells |-> CovarianceUpdate(gain[i], Predict(ps[i]))],
        K |-> gain]

\* KalmanFuser.__init__
InitKalmanFuser ==
    /\ kf_x = x0
    /\ kf_P = P0
    /\ kf_prev = [x |-> x0, P |-> P0, K |-> [i \in KCells |-> 0]]
    /\ kf_updated = FALSE

\* a fuser that is constructed and never updated
IdleKalman ==
    /\ InitKalmanFuser
    /\ measurement_grid = x0
    /\ source_type = "satellite"

\* a second fuser as constructed and no call made
IdleTwin ==
    /\ kf2_x = x0
    /\ kf2_P = P0
    /\ measurement_grid2 = x0
    /\ kf_cell = 1
    /\ kf_sources = <<>>

\* the /predict requests of the inference server
Requests == 1 .. MaxRequests

\* the locals of a request that has not entered update
NoLocals == [x_pred |-> x0, P_pred |-> P0, z |-> x0, xv |-> 0, pv |-> 0]

\* runner = InferenceRunner(): a fresh fuser, no request issued
IdleServer ==
    /\ req_pc = [r \in Requests |-> "none"]
    /\ req_local = [r \in Requests |-> NoLocals]
    /\ kf_ver = [x |-> 0, P |-> 0]

\* no cycle has run and the dashboard has not been asked
IdleStatus ==
    /\ status_file = [content |-> "absent", cycle |-> 0]
    /\ cycle_pc = "idle"
    /\ cycle_no = 0
    /\ dash_pc = "idle"
    /\ dash_resp = [status |-> "none", cycle |-> 0, begun |-> 0]

(***************************************************************************)
(* SensorFusionEngine.filter_anomalies (core/fusion.py)                    *)
(***************************************************************************)
\* A station reading is a record [val, lat, lon]: val in mm/hr, lat and lon
\* in units of 0.00001 degree from the corner of the grid.

\* seq with v inserted before its first element greater than v
RECURSIVE InsertSorted(_, _)
InsertSorted(seq, v) ==
    IF seq = <<>> THEN <<v>>
    ELSE IF v <= seq[1] THEN <<v>> \o seq
    ELSE <<seq[1]>> \o InsertSorted(Tail(seq), v)

\* seq in ascending order
RECURSIVE Ascending(_)
Ascending(seq) ==
    IF seq = <<>> THEN <<>> ELSE InsertSorted(Ascending(Tail(seq)), seq[1])

\* the float that is not a number: json.load reads the literal NaN as
\* float('nan'), and numpy computes 0/0 as nan
NaN == -(2 ^ 30)

\* a < b and a <= b on floats: False when either side is NaN
FLt(a, b) == a # NaN /\ b # NaN /\ a < b
FLe(a, b) == a # NaN /\ b # NaN /\ a <= b

HasNaN(seq) == \E i \in 1 .. Len(seq) : seq[i] = NaN

\* twice np.median(seq) of a non-empty seq: the middle element, or the mean of
\* the two middle elements; nan when an element is nan
Median2(seq) ==
    LET sorted == Ascending(seq)
        n == Len(seq)
    IN IF HasNaN(seq) THEN NaN
       ELSE IF n % 2 = 1 THEN 2 * sorted[(n + 1) \div 2]
       ELSE sorted[n \div 2] + sorted[n \div 2 + 1]

\* values = [s['val'] for s in stations]
ValuesOf(stations) == [i \in 1 .. Len(stations) |-> stations[i].val]

\* twice |v - median_val| for every value v
Deviations2(values) ==
    LET median2 == Median2(values) IN
    [i \in 1 .. Len(values) |->
        IF median2 = NaN THEN NaN ELSE Abs(2 * values[i] - median2)]

\* four times mad = np.median(np.abs(np.array(values) - median_val))
Mad4(values) == Median2(Deviations2(values))

\* Rule 1: not (0.0 <= val <= 500.0)
OutOfBounds(val) == ~(FLe(0, val) /\ FLe(val, 500))

StatisticalOutlierAnyCount(val, values) ==
    /\ IF FLt(0, Mad4(values))
       THEN 2 * Abs(2 * val - Median2(values)) > 3 * Mad4(values)
       ELSE Median2(values) # NaN /\ Abs(2 * val - Median2(values)) > 2 * 50
    /\ val > 10

\* Rule 2: len(stations) > 4, abs(val - median_val) > threshold and
\* val > 10.0, with threshold = 3.0 * mad if mad > 0 else 50.0
StatisticalOutlier(val, values) ==
    /\ Len(values) > 4
    /\ IF FLt(0, Mad4(values))
       THEN 2 * Abs(2 * val - Median2(values)) > 3 * Mad4(values)
       ELSE Median2(values) # NaN /\ Abs(2 * val - Median2(values)) > 2 * 50
    /\ val > 10

\* SensorFusionEngine.filter_anomalies(stations): the readings kept, in order
filter_anomalies(stations) ==
    IF stations = <<>> THEN <<>>
    ELSE SelectSeq(stations,
                   LAMBDA st : /\ ~OutOfBounds(st.val)
                               /\ ~StatisticalOutlier(st.val, ValuesOf(stations)))

(***************************************************************************)
(* The live loop (scripts/run_live_sim.py)                                 *)
(***************************************************************************)
\* np.full(len(df), 0.2): the initial saturation, in thousandths
SatInit == 200
\* decay_rate = 0.98, in hundredths
DecayPct == 98
\* np.clip(current_saturation, 0.1, 1.0), in thousandths
SatFloor == 100
SatCeil == 1000
\* fine_res, the default resolution of the fine grid of downscale_rainfall, m
fine_res == 10
\* the 1e-6 added to the fine volume before dividing, in volume units
Epsilon == 10
\* GAMMA_W, the unit weight of water, in thousandths of kN/m3
GAMMA_W == 9810
\* duration_hours, the default duration of the infiltration step
duration_hours == 6
\* the floor 1e-5 of the driving stress, in stress units
DrivingFloor == 1
\* the upper clip 10.0 of the factor of safety, in thousandths
FosMax == 10000

\* the cells of the data frame
LiveCells == 1 .. 2

\* the mock stations S1, S2, S3
LiveStations ==
    << [lat |-> 10, lon |-> 10], [lat |-> 18, lon |-> 18], [lat |-> 5, lon |-> 14] >>

\* the values a simulated reading may have: max(0, base_intensity + noise)
\* lies in 0 .. 55, and a faulty station reports the spike 9999
LiveReadings == {0, 30, 55, 9999}

\* max(s['val'] for s in clean_sensors) if clean_sensors else 0.0
MaxRain(clean_sensors) == MaxSeq(ValuesOf(clean_sensors))

\* added_sat = (max_rain / 100.0) * 0.1, in thousandths
AddedSat(rain) == rain

np_clip_none(v, lo, hi) == v

\* np.clip(v, lo, hi)
np_clip(v, lo, hi) == IF v < lo THEN lo ELSE IF v > hi THEN hi ELSE v

\* current_saturation * decay_rate + added_sat, then the clip
UpdateSaturation(sat, rain) ==
    [i \in LiveCells |->
        np_clip(RoundDiv(sat[i] * DecayPct, 100) + AddedSat(rain), SatFloor, SatCeil)]

\* the state before the first cycle
InitLiveLoop ==
    /\ current_saturation = [i \in LiveCells |-> SatInit]
    /\ sat_prev = [i \in LiveCells |-> SatInit]
    /\ max_rain = 0
    /\ live_cycled = FALSE

(***************************************************************************)
(* SensorFusion.validate_sensors (core/sensor_fuse.py)                     *)
(***************************************************************************)
\* A raw sensor record is [key, null, val, x, y]: key tells whether the
\* record has a 'val' entry, null whether that entry is None; val is in
\* mm/hr, x and y are metres on the local grid.

\* s['val'] raises KeyError on a record without the entry
RaisesKeyError(raw_sensor_data) ==
    \E i \in 1 .. Len(raw_sensor_data) : ~raw_sensor_data[i].key

\* 1. Global Bounds Check: the records kept by the first pass
CleanPass1(raw_sensor_data) ==
    SelectSeq(raw_sensor_data,
              LAMBDA r : /\ ~r.null
                         /\ ~(FLt(r.val, 0) \/ FLt(MAX_VALID_RAINFALL_MM_HR, r.val)))

\* abs(0.6745 * (val - median) / mad) > 3.5
ModifiedZOutlier(val, vals) ==
    6745 * 2 * Abs(2 * val - Median2(vals)) > 35000 * Mad4(vals)

\* SensorFusion.validate_sensors(raw_sensor_data), when it does not raise
validate_sensors(raw_sensor_data) ==
    LET values == SelectSeq(raw_sensor_data, LAMBDA r : ~r.null)
        clean_pass_1 == CleanPass1(raw_sensor_data)
        vals == ValuesOf(clean_pass_1)
    IN IF values = <<>> THEN <<>>
       ELSE IF clean_pass_1 = <<>> THEN <<>>
       ELSE IF Len(clean_pass_1) > 5 /\ FLt(0, Mad4(vals))
            THEN SelectSeq(clean_pass_1, LAMBDA r : ~ModifiedZOutlier(r.val, vals))
            ELSE clean_pass_1

(***************************************************************************)
(* Inverse distance weighting (core/geofuncs.py, core/fusion.py)           *)
(***************************************************************************)
\* Rainfall grids hold tenths of mm/hr.  A cell computed as 0/0 is NaN.

\* the product of the elements of seq
RECURSIVE ProdSeq(_)
ProdSeq(seq) == IF seq = <<>> THEN 1 ELSE seq[1] * ProdSeq(Tail(seq))

\* seq without its i-th element
DropAt(seq, i) == SubSeq(seq, 1, i - 1) \o SubSeq(seq, i + 1, Len(seq))

\* the weights 1 / dists[i] brought to the common denominator ProdSeq(dists)
InverseWeights(dists) == [i \in 1 .. Len(dists) |-> ProdSeq(DropAt(dists, i))]

\* sum(val * w) / sum(w), in tenths
WeightedMean(vals, weights) ==
    LET den == SumSeq(weights)
        num == SumSeq([i \in 1 .. Len(vals) |-> vals[i] * weights[i]])
    IN IF den = 0 THEN NaN ELSE RoundDiv(10 * num, den)

\* self.elevation, in metres
Elevation == [c \in Cells |-> 500 + 3000 * c[1] + 100 * c[2]]

\* dist_sq = (x_coords - sx)**2 + (y_coords - sy)**2; dist_sq[dist_sq < 1] = 1.0
DownscalerDistSq(c, sensor) ==
    LET d == (c[2] * CELL_SIZE_M - sensor.x) * (c[2] * CELL_SIZE_M - sensor.x)
             + (c[1] * CELL_SIZE_M - sensor.y) * (c[1] * CELL_SIZE_M - sensor.y)
    IN IF d < 1 THEN 1 ELSE d

\* self.elevation[iy, ix] with ix = int(np.clip(sx / CELL_SIZE_M, 0, GRID_DIM_X-1))
SensorElevation(sensor) ==
    Elevation[<< np_clip(sensor.y \div CELL_SIZE_M, 0, 2),
                 np_clip(sensor.x \div CELL_SIZE_M, 0, GridCols - 1) >>]

\* oro_factor = np.clip(1.0 + ELEVATION_RAIN_FACTOR * delta_elev, 0.5, 2.5),
\* in ten-thousandths
OroFactor(c, sensor_list) ==
    LET elevs == [i \in 1 .. Len(sensor_list) |-> SensorElevation(sensor_list[i])]
        avg_sens_elev == RoundDiv(SumSeq(elevs), Len(elevs))
    IN np_clip(10000 + 2 * (Elevation[c] - avg_sens_elev), 5000, 25000)

\* the part of compute_rainfall_grid after its empty-list check
DownscaleGrid(sensor_list) ==
    [c \in Cells |->
        LET dists == [i \in 1 .. Len(sensor_list) |-> DownscalerDistSq(c, sensor_list[i])]
            base_rain == WeightedMean(ValuesOf(sensor_list), InverseWeights(dists))
        IN IF base_rain = NaN THEN NaN
           ELSE Max(RoundDiv(base_rain * OroFactor(c, sensor_list), 10000), 0)]

compute_rainfall_grid_unguarded(sensor_list, default_rain) == DownscaleGrid(sensor_list)

\* RainfallDownscaler.compute_rainfall_grid(sensor_list, default_rain)
compute_rainfall_grid(sensor_list, default_rain) ==
    IF sensor_list = <<>> THEN [c \in Cells |-> default_rain]
    ELSE DownscaleGrid(sensor_list)

\* lat_grid and lon_grid handed to fuse_rainfall_idw: cells 0.00009 degree
\* (10 m) apart
IdwLat(c) == 9 * c[1]
IdwLon(c) == 9 * c[2]

\* dist_sq = d_lat**2 + d_lon**2; np.maximum(dist_sq, 1e-10)
IdwDistSq(c, st) ==
    Max((IdwLat(c) - st.lat) * (IdwLat(c) - st.lat)
          + (IdwLon(c) - st.lon) * (IdwLon(c) - st.lon), 1)

\* station_grid = adjustment_surface / total_weights
StationGrid(stations) ==
    [c \in Cells |->
        WeightedMean(ValuesOf(stations),
                     InverseWeights([i \in 1 .. Len(stations) |-> IdwDistSq(c, stations[i])]))]

\* SensorFusionEngine.fuse_rainfall_idw(base_grid, stations, lat_grid, lon_grid)
fuse_rainfall_idw(base_grid, stations) ==
    IF stations = <<>> THEN base_grid ELSE StationGrid(stations)

\* no fusion call made yet
InitFusion ==
    /\ fuse_op = "none"
    /\ fuse_in = <<>>
    /\ fuse_kept = <<>>
    /\ fuse_base = [c \in Cells |-> 0]
    /\ fuse_grid = [c \in Cells |-> 0]
    /\ fuse_raised = FALSE

(***************************************************************************)
(* RiskEngine.compute_risk (core/risk_engine.py) and the static mask of    *)
(* the supervisor (main.py).  Slopes are in whole degrees, the soil factor *)
(* in hundredths, rain in tenths of mm/hr, logits in thousandths and risks *)
(* in hundredths, rounded up: a risk is above 0.75 exactly when its        *)
(* hundredths are above 75, and it is 0 only when the cell was given 0.    *)
(***************************************************************************)
\* config.MODEL_WEIGHTS = [0.05, 0.02, 0.15, 0.4, 0.5], in hundredths
MODEL_WEIGHTS == <<5, 2, 15, 40, 50>>

\* self.static_mask = (self.slope >= config.SLOPE_THRESHOLD_DEG)
StaticMask(slope_grid) == {c \in Cells : FLe(SLOPE_THRESHOLD_DEG, slope_grid[c])}

\* rain_grid = self.downscaler.compute_rainfall_grid(valid_sensors): a NaN
\* reading makes weighted_val_sum, and with it the grid, NaN in every cell
RainGridOf(valid_sensors) ==
    IF HasNaN(ValuesOf(valid_sensors)) THEN [c \in Cells |-> NaN]
    ELSE compute_rainfall_grid(valid_sensors, 0)

\* feature_stack = np.stack([rain_grid, rain_24, self.slope, curvature,
\* self.soil]) with rain_24 = rain_grid * 5.0 and curvature = 0
FeatureStack(rain_grid, slope_grid, soil_grid) ==
    [c \in Cells |->
        << rain_grid[c], IF rain_grid[c] = NaN THEN NaN ELSE 5 * rain_grid[c],
           slope_grid[c], 0, soil_grid[c] >>]

\* logits = np.dot(valid_features, self.weights) + self.bias for one cell
Logit(f) ==
    IF HasNaN(f) THEN NaN
    ELSE MODEL_WEIGHTS[1] * f[1] + MODEL_WEIGHTS[2] * f[2]
           + 10 * MODEL_WEIGHTS[3] * f[3] + 10 * MODEL_WEIGHTS[4] * f[4]
           + (MODEL_WEIGHTS[5] * f[5]) \div 10 + MODEL_BIAS

\* 1000 ln(k / (100 - k)) for k = 1 .. 99, rounded down: the logits at which
\* the sigmoid passes k hundredths
SigmoidCuts ==
    <<-4596, -3892, -3477, -3179, -2945, -2752, -2587, -2443, -2314, -2198,
      -2091, -1993, -1901, -1816, -1735, -1659, -1586, -1517, -1451, -1387,
      -1325, -1266, -1209, -1153, -1099, -1046, -995, -945, -896, -848,
      -801, -754, -709, -664, -620, -576, -533, -490, -448, -406,
      -364, -323, -282, -242, -201, -161, -121, -81, -41, 0,
      40, 80, 120, 160, 200, 241, 281, 322, 363, 405,
      447, 489, 532, 575, 619, 663, 708, 753, 800, 847,
      895, 944, 994, 1045, 1098, 1152, 1208, 1265, 1324, 1386,
      1450, 1516, 1585, 1658, 1734, 1815, 1900, 1992, 2090, 2197,
      2313, 2442, 2586, 2751, 2944, 3178, 3476, 3891, 4595>>

\* probs = 1.0 / (1.0 + np.exp(-logits)), in hundredths rounded up
Sigmoid(logit) ==
    IF logit = NaN THEN NaN
    ELSE 1 + Cardinality({k \in 1 .. 99 : logit > SigmoidCuts[k]})

\* RiskEngine.compute_risk(feature_stack, slope_mask)
compute_risk(feature_stack, slope_mask) ==
    [c \in Cells |-> IF c \in slope_mask THEN Sigmoid(Logit(feature_stack[c])) ELSE 0]

\* np.max(risk_map)
MaxRisk(rm) == IF \E c \in Cells : rm[c] = NaN THEN NaN ELSE MaxOver(Cells, rm)

\* no terrain loaded
IdleRisk ==
    /\ slope_npy = [c \in Cells |-> 0]
    /\ soil_npy = [c \in Cells |-> 0]
    /\ static_mask = {}

(***************************************************************************)
(* Ingestion: load_shimla_data (ingestion/loader.py), read_live_sensors    *)
(* and the operation loop (main.py)                                        *)
(***************************************************************************)
\* the columns load_shimla_data requires
required_cols == {"lat", "lon", "elevation", "slope", "clay", "sand", "silt", "bulk", "R_7d"}

\* load_shimla_data on a path that exists or not, holding a table of the
\* given columns: the exception it raises ("none" if none) and whether it
\* returns the table
load_shimla_data(exists, columns) ==
    LET missing == {c \in required_cols : c \notin columns} IN
    IF ~exists THEN [error |-> "FileNotFoundError", loaded |-> FALSE]
    ELSE IF missing # {} THEN [error |-> "ValueError", loaded |-> FALSE]
    ELSE [error |-> "none", loaded |-> TRUE]

\* sensors.json: whether it exists, whether json.load parses it, and the
\* records it holds
SensorFile(e, p, recs) == [exists |-> e, parses |-> p, records |-> recs]

\* read_live_sensors: the records of the file; the empty list when the file
\* is absent and, by the bare except, when json.load fails
read_live_sensors(file) ==
    IF file.exists
    THEN IF file.parses THEN file.records ELSE <<>>
    ELSE <<>>

\* nothing loaded, the loop not entered
InitIngestion ==
    /\ dataset = [op |-> "none", exists |-> FALSE, columns |-> {}, error |-> "none", loaded |-> FALSE]
    /\ sensor_file = SensorFile(FALSE, FALSE, <<>>)
    /\ main_pc = "start"
    /\ main_error = "none"

(***************************************************************************)
(* estimate_soil_parameters (preprocess/soil_props.py), one cell of the    *)
(* table.  clay, sand and silt are non-negative texture percentages, bulk  *)
(* is the bulk density column and slope is in degrees.  The results are in *)
(* thousandths: gamma kN/m3, depth m, c kPa, phi degrees, and log_k, the   *)
(* decimal logarithm of ksat (ksat = 10 ^ log_k is NaN exactly when log_k  *)
(* is).                                                                    *)
(***************************************************************************)
\* np.exp(-0.02 * slope) in thousandths, at the slopes of the model
ExpDecay(slope) ==
    CASE slope = 0 -> 1000
      [] slope = 30 -> 549
      [] slope = 60 -> 301
      [] slope = 80 -> 202

\* np.clip(a, lo, hi)
Clip(a, lo, hi) == IF a < lo THEN lo ELSE IF a > hi THEN hi ELSE a

\* a / b of two float columns, in thousandths: 0 / 0 is NaN and raises
\* nothing (a non-zero a over 0 would be infinite; the textures are
\* non-negative, so a zero total has zero numerators)
FracThousandths(a, b) == IF b = 0 THEN NaN ELSE RoundDiv(1000 * a, b)

\* ca * clay_frac + cb * silt_frac + cc * sand_frac, NaN if a fraction is
TextureBlend(ca, cb, cc, clay_frac, silt_frac, sand_frac) ==
    IF clay_frac = NaN \/ silt_frac = NaN \/ sand_frac = NaN THEN NaN
    ELSE ca * clay_frac + cb * silt_frac + cc * sand_frac

\* the columns appended for one cell; no exception is raised
estimate_soil_parameters(cell) ==
    LET total == cell.clay + cell.sand + cell.silt
        clay_frac == FracThousandths(cell.clay, total)
        sand_frac == FracThousandths(cell.sand, total)
        silt_frac == FracThousandths(cell.silt, total)
    IN  [error |-> "none",
         gamma |-> cell.bulk * 100,
         depth |-> Clip(4 * ExpDecay(cell.slope), 1000, 5000),
         c |-> TextureBlend(20, 5, 1, clay_frac, silt_frac, sand_frac),
         phi |-> TextureBlend(20, 28, 35, clay_frac, silt_frac, sand_frac),
         log_k |-> TextureBlend(-7, -6, -4, clay_frac, silt_frac, sand_frac)]

SoilCell(cl, sa, si, b, sl) == [clay |-> cl, sand |-> sa, silt |-> si, bulk |-> b, slope |-> sl]

\* estimate_soil_parameters not called yet
InitSoil ==
    /\ soil_in = SoilCell(0, 0, 0, 0, 0)
    /\ soil_out = [op |-> "none"]

(***************************************************************************)
(* downscale_rainfall (preprocess/downscale.py).  A grid is a sequence of  *)
(* rows.  Elevations are in metres.  Rain is counted in units of 3e-7 mm,  *)
(* the magnitude at which the 1e-6 added to the fine volume is Epsilon     *)
(* volume units (a volume unit is 1/300 rain unit on one fine cell); the   *)
(* interpolated grid carries the denominator ZoomDen, the weights are in   *)
(* hundredths and slopes in hundredths of a degree.                        *)
(***************************************************************************)
\* the sum of the cells of a grid
SumGrid(grid) == SumSeq([i \in 1 .. Len(grid) |-> SumSeq(grid[i])])
\* the number of cells of a grid
SizeOf(grid) == Len(grid) * Len(grid[1])

\* the common denominator of the interpolated values
ZoomDen(out_r, out_c) == Max(out_r - 1, 1) * Max(out_c - 1, 1)

\* scipy.ndimage.zoom(input, zoom_factors, order=1): output cell (i, j) is
\* the bilinear interpolation of input at the coordinates
\* ((i - 1)(in_r - 1)/(out_r - 1), (j - 1)(in_c - 1)/(out_c - 1)),
\* here multiplied by ZoomDen
zoom(input, out_r, out_c) ==
    LET in_r == Len(input)
        in_c == Len(input[1])
        dr == Max(out_r - 1, 1)
        dc == Max(out_c - 1, 1)
        At(i, j) ==
            LET ni == (i - 1) * (in_r - 1)
                nj == (j - 1) * (in_c - 1)
                i0 == ni \div dr
                j0 == nj \div dc
                fi == ni % dr
                fj == nj % dc
                i1 == Min(i0 + 1, in_r - 1)
                j1 == Min(j0 + 1, in_c - 1)
            IN  (dr - fi) * (dc - fj) * input[i0 + 1][j0 + 1]
                  + (dr - fi) * fj * input[i0 + 1][j1 + 1]
                  + fi * (dc - fj) * input[i1 + 1][j0 + 1]
                  + fi * fj * input[i1 + 1][j1 + 1]
    IN  [i \in 1 .. out_r |-> [j \in 1 .. out_c |-> At(i, j)]]

\* np.gradient(f, h) times 2 h: one-sided differences at the two ends,
\* central differences between
Gradient2(f) ==
    [k \in 1 .. Len(f) |->
        IF k = 1 THEN 2 * (f[2] - f[1])
        ELSE IF k = Len(f) THEN 2 * (f[k] - f[k - 1])
        ELSE f[k + 1] - f[k - 1]]

Column(grid, j) == [i \in 1 .. Len(grid) |-> grid[i][j]]

\* np.degrees(np.arctan(np.sqrt(q))) in hundredths of a degree, q being
\* dx^2 + dy^2 times (2 fine_res)^2, at the gradients of the terrains
ArctanDeg(q) ==
    CASE q = 0 -> 0
      [] q = 100 -> 2657
      [] q = 400 -> 4500
      [] q = 500 -> 4819
      [] q = 1600 -> 6343
      [] q = 2000 -> 6591

\* compute_slope(dem, fine_res)
compute_slope(grid) ==
    [i \in 1 .. Len(grid) |-> [j \in 1 .. Len(grid[1]) |->
        LET dy2 == Gradient2(Column(grid, j))[i]
            dx2 == Gradient2(grid[i])[j]
        IN  ArctanDeg(dx2 * dx2 + dy2 * dy2)]]

\* np.mean and np.std of a grid
MeanOf(grid) == RoundDiv(SumGrid(grid), SizeOf(grid))
StdOf(grid) ==
    LET m == MeanOf(grid) IN
    ISqrt(RoundDiv(SumGrid([i \in 1 .. Len(grid) |-> [j \in 1 .. Len(grid[1]) |->
                              (grid[i][j] - m) * (grid[i][j] - m)]]),
                   SizeOf(grid)))

\* weights = clip(1 + 0.1 (slope - mean) / (std + 1e-6), 0.5, 2.0); with a
\* zero deviation every slope equals the mean and the quotient is 0
SlopeWeights(slope) ==
    LET m == MeanOf(slope)
        sd == StdOf(slope)
    IN  [i \in 1 .. Len(slope) |-> [j \in 1 .. Len(slope[1]) |->
            LET slope_norm == IF sd = 0 THEN 0 ELSE RoundDiv(1000 * (slope[i][j] - m), sd)
            IN  Clip(100 + RoundDiv(slope_norm, 100), 50, 200)]]

\* total_rain_coarse, in volume units
TotalRainCoarse(coarse, out_r, out_c, coarse_res) ==
    SumGrid(coarse) * ZoomDen(out_r, out_c) * 100
      * ((coarse_res * coarse_res) \div (fine_res * fine_res))
\* total_rain_fine, in volume units
TotalRainFine(fine) == SumGrid(fine)

\* rain_bilinear * weights
WeightedRain(coarse, grid) ==
    LET rain_bilinear == zoom(coarse, Len(grid), Len(grid[1]))
        weights == SlopeWeights(compute_slope(grid))
    IN  [i \in 1 .. Len(grid) |-> [j \in 1 .. Len(grid[1]) |->
            rain_bilinear[i][j] * weights[i][j]]]

\* the variant that leaves the weighted grid as it is
MassBalanceNone(fine, total_rain_coarse) == fine
\* rain_fine * correction_factor, with
\* correction_factor = total_rain_coarse / (total_rain_fine + 1e-6)
MassBalance(fine, total_rain_coarse) ==
    [i \in 1 .. Len(fine) |-> [j \in 1 .. Len(fine[1]) |->
        RoundDiv(fine[i][j] * total_rain_coarse, TotalRainFine(fine) + Epsilon)]]

\* the noise fields drawn in stochastic mode, of standard deviation sd:
\* none, one deviation above everywhere, and three below on every other cell
NoiseField(kind, grid, sd) ==
    [i \in 1 .. Len(grid) |-> [j \in 1 .. Len(grid[1]) |->
        CASE kind = 1 -> 0
          [] kind = 2 -> sd
          [] kind = 3 -> IF (i + j) % 2 = 0 THEN -3 * sd ELSE sd]]

\* downscale_rainfall(coarse_rain, dem, coarse_res, fine_res, mode): the
\* grid after the mass balance and the grid returned
downscale_rainfall(coarse, grid, coarse_res, m, kind) ==
    LET corrected == MassBalance(WeightedRain(coarse, grid),
                                 TotalRainCoarse(coarse, Len(grid), Len(grid[1]), coarse_res))
        noise == NoiseField(kind, grid, RoundDiv(MeanOf(corrected), 10))
    IN  [corrected |-> corrected,
         returned |-> IF m = "stochastic"
                      THEN [i \in 1 .. Len(grid) |-> [j \in 1 .. Len(grid[1]) |->
                               Max(0, corrected[i][j] + noise[i][j])]]
                      ELSE corrected]

\* downscale_rainfall not called yet
InitDownscale ==
    /\ coarse_rain = <<>>
    /\ dem = <<>>
    /\ mode = "none"
    /\ rain_corrected = <<>>
    /\ rain_fine = <<>>

(***************************************************************************)
(* compute_fos_vectorized (models/fisical_fos.py), one cell.  Angles are   *)
(* in tenths of a degree; c, gamma, depth and the saturation are in        *)
(* thousandths (kPa, kN/m3, m, 1); ksat and the rain rate are in 1e-9 m/s; *)
(* the rainfall intensity is in mm/hr.  Stresses are in units of 1e-5 kPa, *)
(* the floor of the driving stress; sines, cosines and tangents are in     *)
(* units of 1 / TrigScale; the factor of safety is in thousandths.         *)
(***************************************************************************)
TrigScale == 2 ^ 15

\* a * b / d, rounded, without forming a * b
MulDiv(a, b, d) == (a \div d) * b + RoundDiv((a % d) * b, d)

\* np.sin and np.cos of np.radians(angle), at the clipped slopes of the model
SinOf(angle) ==
    CASE angle = 1 -> 57
      [] angle = 300 -> 16384
      [] angle = 450 -> 23170
      [] angle = 899 -> 32768
CosOf(angle) ==
    CASE angle = 1 -> 32768
      [] angle = 300 -> 28378
      [] angle = 450 -> 23170
      [] angle = 899 -> 57
\* np.tan(np.radians(phi_deg)), at the friction angles of the model
TanOf(angle) ==
    CASE angle = 0 -> 0
      [] angle = 5 -> 286
      [] angle = 200 -> 11927
      [] angle = 300 -> 18919
      [] angle = 350 -> 22944
      [] angle = 450 -> 32768

\* rain_rate_ms = rainfall_intensity_mmph * 2.777e-7
RainRate(rainfall_intensity_mmph) == RoundDiv(rainfall_intensity_mmph * 2777, 10)

\* h_w_rise = min(rain_rate_ms, ksat) * duration_s / ne, with ne = 0.3
WaterRise(rain_rate_ms, ksat) ==
    RoundDiv(Min(rain_rate_ms, ksat) * (duration_hours * 3600), 300000)

\* the variant that does not clamp the water height to the soil depth
WaterHeightUnclamped(sat, z, h_w_rise) == RoundDiv(sat * z, 1000) + h_w_rise
\* h_w = np.clip(current_saturation * z + h_w_rise, 0.0, z)
WaterHeight(sat, z, h_w_rise) == Clip(RoundDiv(sat * z, 1000) + h_w_rise, 0, z)

\* the variant that takes the floor for the driving stress
DrivingFloorOnly(tau) == DrivingFloor
\* driving = np.maximum(tau, 1e-5)
Driving(tau) == Max(tau, DrivingFloor)

\* np.clip(resisting / driving, 0.0, 10.0), in thousandths
RECURSIVE ClippedRatio(_, _)
ClippedRatio(resisting, driving) ==
    IF resisting <= 0 THEN 0
    ELSE IF resisting \div driving >= FosMax \div 1000 THEN FosMax
    ELSE IF driving > 200000 THEN ClippedRatio(resisting \div 10, driving \div 10)
    ELSE Clip(RoundDiv(resisting * 1000, driving), 0, FosMax)

\* the water height, the effective stress, the driving stress and the
\* factor of safety of one cell
compute_fos_vectorized(cell) ==
    LET slope == Clip(cell.slope_deg, 1, 899)
        sin_a == SinOf(slope)
        cos_a == CosOf(slope)
        cos_sq == RoundDiv(cos_a * cos_a, TrigScale)
        tan_phi == TanOf(cell.phi)
        h_w == WaterHeight(cell.saturation, cell.depth,
                           WaterRise(RainRate(cell.rain), cell.ksat))
        gamma_z == RoundDiv(cell.gamma * cell.depth, 10)
        sigma_n == MulDiv(gamma_z, cos_sq, TrigScale)
        u == MulDiv(RoundDiv(GAMMA_W * h_w, 10), cos_sq, TrigScale)
        sigma_prime == Max(sigma_n - u, 0)
        tau == MulDiv(MulDiv(gamma_z, sin_a, TrigScale), cos_a, TrigScale)
        resisting == 100 * cell.c + MulDiv(sigma_prime, tan_phi, TrigScale)
        driving == Driving(tau)
    IN  [h_w |-> h_w, sigma_prime |-> sigma_prime, tau |-> tau,
         driving |-> driving, fos |-> ClippedRatio(resisting, driving)]

FosCell(sl, co, ph, ga, de, ks, sat, rn) ==
    [slope_deg |-> sl, c |-> co, phi |-> ph, gamma |-> ga, depth |-> de,
     ksat |-> ks, saturation |-> sat, rain |-> rn]

\* compute_fos_vectorized not called yet
InitFos ==
    /\ fos_in = FosCell(0, 0, 0, 0, 0, 0, 0, 0)
    /\ fos_out = [op |-> "none"]

(***************************************************************************)
(* Inputs                                                                  *)
(***************************************************************************)
\* the clock starts no earlier than one cooldown after the epoch, as every
\* real wall clock does
MinClock == ALERT_COOLDOWN_SECONDS
MaxClock == MinClock + MaxHours * 3600

\* a two-valued risk grid: hi on the cells of H, lo elsewhere
MapOf(H, lo, hi) == [c \in Cells |-> IF c \in H THEN hi ELSE lo]

\* the value pairs <<lo, hi>> of the risk grids, in hundredths: below, at and
\* above the two thresholds 0.6 and 0.75
LevelPairs == {<<50, 60>>, <<50, 75>>, <<50, 90>>}

\* the sets of at most k cells
RECURSIVE UpTo(_)
UpTo(k) ==
    IF k = 0 THEN {{}}
    ELSE LET S == UpTo(k - 1) IN S \cup {A \cup {c} : A \in S, c \in Cells}

\* the risk grids with at most MaxCold cells at the low value: every grid on
\* which the flood fill of check_alert_conditions runs is among them, since it
\* needs MIN_CLUSTER_SIZE cells at the high value
AllMaps == {MapOf(Cells \ A, p[1], p[2]) : A \in UpTo(MaxCold), p \in LevelPairs}

\* lengths of the timestamp strings handed to evaluate and generate_message:
\* an ISO timestamp, a date only, an empty string
TimestampLens == {19, 10, 0}

(***************************************************************************)
(* Clustering: the two alerting entry points applied to one risk grid      *)
(***************************************************************************)
InitAlertSystem ==
    /\ last_alert_time = 0
    /\ alert_outbox = <<>>
    /\ result = NoResult
    /\ prev_text = ""
    /\ fill = NoFill
    /\ status = NoStatus

InitEngine ==
    /\ engine_called = FALSE
    /\ engine_alerts = <<>>
    /\ sms_outbox = <<>>
    /\ sms_last = NoSms

InitCluster ==
    /\ risk_map \in AllMaps
    /\ clock = MinClock
    /\ InitAlertSystem
    /\ InitEngine
    /\ IdleKalman
    /\ InitLiveLoop
    /\ InitFusion
    /\ IdleRisk
    /\ IdleStatus
    /\ IdleServer
    /\ IdleTwin
    /\ InitFos
    /\ InitDownscale
    /\ InitSoil
    /\ InitIngestion

\* AlertSystem.check_alert_conditions(risk_map), the clock reading now
SystemCheck ==
    /\ ~result.called
    /\ \E r \in {check_alert_conditions(risk_map, clock, last_alert_time, alert_outbox)} :
         /\ fill' = r.fill
         /\ result' = [alert |-> r.alert, msg |-> r.msg, called |-> TRUE]
         /\ last_alert_time' = r.last
         /\ alert_outbox' = r.outbox
    /\ prev_text' = result.msg.text
    /\ UNCHANGED <<risk_map, clock, status, engineVars, kalmanVars, liveVars, fuseVars, ingestVars, soilVars, downscaleVars, fosVars, twinVars, serverVars, statusVars, riskVars>>

\* AlertEngine.evaluate(risk_map, lat_grid, lon_grid, timestamp) on a fresh
\* engine
EngineEvaluate ==
    /\ sms_outbox = <<>>
    /\ \E timestamp \in TimestampLens :
         \E alerts \in {evaluate(risk_map, timestamp)} :
         /\ engine_called' = TRUE
         /\ engine_alerts' = alerts
         /\ sms_outbox' = sms_outbox \o SmsOf(alerts)
         /\ sms_last' = IF alerts = <<>> THEN sms_last ELSE alerts[Len(alerts)].sms
    /\ UNCHANGED <<risk_map, alertVars, kalmanVars, liveVars, fuseVars, ingestVars, soilVars, downscaleVars, fosVars, twinVars, serverVars, statusVars, riskVars>>

NextCluster == SystemCheck \/ EngineEvaluate

SpecCluster == InitCluster /\ [][NextCluster]_vars

(***************************************************************************)
(* The supervisor's cycle (main.py) with the alert cooldown                *)
(***************************************************************************)
\* seconds between the clock readings of two consecutive cycles; a negative
\* value is a wall clock set back
Deltas == {-1800, 0, 1800, 3600}

\* the cold cells of the risk grids a cycle may compute: none, two cells of
\* the first column, and the two neighbours of a corner (which cut the corner
\* off the other high-risk cells)
CycleCold == {{}, {<<0, 0>>, <<2, 0>>}, {<<0, 1>>, <<1, 0>>}}

\* the risk grids a cycle may compute: those, and all cells exactly at the
\* threshold
CycleMaps == {MapOf(Cells \ A, 50, 90) : A \in CycleCold} \cup {MapOf(Cells, 50, 75)}

InitAlert ==
    /\ risk_map = MapOf({}, 50, 90)
    /\ clock \in {MinClock, MinClock + 1800}
    /\ InitAlertSystem
    /\ InitEngine
    /\ IdleKalman
    /\ InitLiveLoop
    /\ InitFusion
    /\ IdleRisk
    /\ IdleStatus
    /\ IdleServer
    /\ IdleTwin
    /\ InitFos
    /\ InitDownscale
    /\ InitSoil
    /\ InitIngestion

\* SentinelSupervisor.run_cycle, dt seconds after the previous clock reading,
\* the risk engine having computed the grid rm: the alert logic and the status
\* update
RunCycle(rm, dt) ==
    /\ clock + dt >= MinClock
    /\ clock + dt <= MaxClock
    /\ clock' = clock + dt
    /\ risk_map' = rm
    /\ \E r \in {check_alert_conditions(rm, clock + dt, last_alert_time, alert_outbox)} :
         /\ fill' = r.fill
         /\ result' = [alert |-> r.alert, msg |-> r.msg, called |-> TRUE]
         /\ last_alert_time' = r.last
         /\ alert_outbox' = r.outbox
         /\ status' = StatusRecord(rm, clock + dt, r)
    /\ prev_text' = result.msg.text
    /\ UNCHANGED <<engineVars, kalmanVars, liveVars, fuseVars, ingestVars, soilVars, downscaleVars, fosVars, twinVars, serverVars, statusVars, riskVars>>

NextAlert == \E rm \in CycleMaps, dt \in Deltas : RunCycle(rm, dt)

SpecAlert == InitAlert /\ [][NextAlert]_vars

(***************************************************************************)
(* SMSSimulator.generate_message called directly                           *)
(***************************************************************************)
\* lengths of the sector ids, of the formatted coordinates, of the joined
\* zone lists and of the info codes handed to generate_message
SectorLens == {7, 103, 120}
CoordLens == {5, 6}
ZonesLens == {0, 2, 3, 7, 11, 40, 120}
UrlLens == {7}

InitSms ==
    /\ risk_map = MapOf({}, 50, 90)
    /\ clock = MinClock
    /\ InitAlertSystem
    /\ InitEngine
    /\ IdleKalman
    /\ InitLiveLoop
    /\ InitFusion
    /\ IdleRisk
    /\ IdleStatus
    /\ IdleServer
    /\ IdleTwin
    /\ InitFos
    /\ InitDownscale
    /\ InitSoil
    /\ InitIngestion

\* SMSSimulator("DST").generate_message(timestamp_str, sector_id, lat, lon,
\* zones, url_code)
GenerateMessage(timestamp, sector, lat, lon, zones, url) ==
    /\ Len(sms_outbox) < MaxSms
    /\ \E msg \in {generate_message(3, timestamp, sector, lat, lon, zones, url)} :
         /\ sms_outbox' = Append(sms_outbox, msg)
         /\ sms_last' = msg
    /\ UNCHANGED <<risk_map, alertVars, engine_called, engine_alerts, kalmanVars, liveVars, fuseVars, ingestVars, soilVars, downscaleVars, fosVars, twinVars, serverVars, statusVars, riskVars>>

NextSms ==
    \E timestamp \in TimestampLens, sector \in SectorLens, lat \in CoordLens,
       lon \in CoordLens, zones \in ZonesLens, url \in UrlLens :
        GenerateMessage(timestamp, sector, lat, lon, zones, url)

SpecSms == InitSms /\ [][NextSms]_vars

(***************************************************************************)
(* KalmanFuser.update called repeatedly with the same arguments            *)
(***************************************************************************)
\* the values a cell of the measurement grid may have (rain in mm/h, one of
\* them negative and one not a whole number)
Measurements == {-2 * Scale, 0, 3 * Scale + 1, 7 * Scale}

InitKalman ==
    /\ risk_map = MapOf({}, 50, 90)
    /\ clock = MinClock
    /\ InitAlertSystem
    /\ InitEngine
    /\ InitLiveLoop
    /\ InitFusion
    /\ IdleRisk
    /\ IdleStatus
    /\ IdleServer
    /\ IdleTwin
    /\ InitFos
    /\ InitDownscale
    /\ InitSoil
    /\ InitIngestion
    /\ InitKalmanFuser
    /\ measurement_grid \in [KCells -> Measurements]
    /\ source_type \in SourceTypes

\* fuser.update(zs, src)
KalmanUpdate(zs, src) ==
    /\ \E r \in {update(kf_x, kf_P, zs, src)} :
         /\ kf_x' = r.x
         /\ kf_P' = r.P
         /\ kf_prev' = [x |-> kf_x, P |-> kf_P, K |-> r.K]
    /\ kf_updated' = TRUE
    /\ measurement_grid' = zs
    /\ source_type' = src
    /\ UNCHANGED <<risk_map, alertVars, engineVars, liveVars, fuseVars, ingestVars, soilVars, downscaleVars, fosVars, twinVars, serverVars, statusVars, riskVars>>

\* the caller repeats the call with the grid and the source type it began with
NextKalman == KalmanUpdate(measurement_grid, source_type)

\* the loop that calls update keeps calling it
SpecKalman == InitKalman /\ [][NextKalman]_vars /\ WF_vars(NextKalman)

(***************************************************************************)
(* The cycles of run_live_loop                                             *)
(***************************************************************************)
InitLive ==
    /\ risk_map = MapOf({}, 50, 90)
    /\ clock = MinClock
    /\ InitAlertSystem
    /\ InitEngine
    /\ IdleKalman
    /\ InitLiveLoop
    /\ InitFusion
    /\ IdleRisk
    /\ IdleStatus
    /\ IdleServer
    /\ IdleTwin
    /\ InitFos
    /\ InitDownscale
    /\ InitSoil
    /\ InitIngestion

\* one pass of the while loop, the three stations reading vals: the readings
\* are filtered, the largest remaining one drives the saturation update
LiveCycle(vals) ==
    /\ \E current_readings \in
            {[i \in 1 .. 3 |-> [val |-> Max(0, vals[i]),
                                lat |-> LiveStations[i].lat,
                                lon |-> LiveStations[i].lon]]} :
         \E clean_sensors \in {filter_anomalies(current_readings)} :
         \E rain \in {IF clean_sensors # <<>> THEN MaxRain(clean_sensors) ELSE 0} :
            /\ max_rain' = rain
            /\ current_saturation' = UpdateSaturation(current_saturation, rain)
    /\ sat_prev' = current_saturation
    /\ live_cycled' = TRUE
    /\ UNCHANGED <<risk_map, alertVars, engineVars, kalmanVars, fuseVars, ingestVars, soilVars, downscaleVars, fosVars, twinVars, serverVars, statusVars, riskVars>>

NextLive == \E vals \in [1 .. 3 -> LiveReadings] : LiveCycle(vals)

SpecLive == InitLive /\ [][NextLive]_vars

(***************************************************************************)
(* The rainfall fusion calls                                               *)
(***************************************************************************)
\* the sequences over pool of at most n elements
RECURSIVE SeqsUpTo(_, _)
SeqsUpTo(pool, n) ==
    IF n = 0 THEN {<<>>}
    ELSE LET shorter == SeqsUpTo(pool, n - 1) IN
         shorter \cup {Append(q, e) : q \in shorter, e \in pool}

RawSensor(v, sx, sy) == [key |-> TRUE, null |-> FALSE, val |-> v, x |-> sx, y |-> sy]

\* the records of sensors.json: three readings within bounds (one at the
\* bound), one negative, one above the bound, one whose value is null and one
\* without a value
RawPool ==
    {RawSensor(20, 0, 0), RawSensor(120, 250, 150), RawSensor(300, 100, 200),
     RawSensor(-5, 100, 100), RawSensor(301, 300, 0),
     [RawSensor(0, 0, 0) EXCEPT !.null = TRUE],
     [RawSensor(0, 0, 0) EXCEPT !.key = FALSE]}

\* the sensor files read: up to two records, and six faulty ones
RawLists == SeqsUpTo(RawPool, 2) \cup {[i \in 1 .. 6 |-> RawSensor(301 + i, 100, 100)]}

\* the default_rain of compute_rainfall_grid, in tenths of mm/hr
DefaultRains == {0, 25}

Station(v, la, lo) == [val |-> v, lat |-> la, lon |-> lo]

\* ground station readings: three within the limits (one at the limit) and
\* three outside
StationPool ==
    {Station(20, 0, 0), Station(120, 9, 27), Station(500, 4, 13),
     Station(-1, 9, 9), Station(501, 18, 0), Station(9999, 5, 14)}

\* the station lists: up to two readings, five spikes, and three spikes with
\* two readings within the limits
StationLists ==
    SeqsUpTo(StationPool, 2)
      \cup {[i \in 1 .. 5 |-> Station(9999, i, i)],
            [i \in 1 .. 5 |-> Station(IF i = 4 THEN 40 ELSE IF i = 5 THEN 200 ELSE 9999, i, i)]}

\* background grids: dry, uniform rain, and a gradient
BaseGrids ==
    {[c \in Cells |-> 0], [c \in Cells |-> 125], [c \in Cells |-> 10 * c[1] + c[2]]}

InitFuse ==
    /\ risk_map = MapOf({}, 50, 90)
    /\ clock = MinClock
    /\ InitAlertSystem
    /\ InitEngine
    /\ IdleKalman
    /\ InitLiveLoop
    /\ InitFusion
    /\ IdleRisk
    /\ IdleStatus
    /\ IdleServer
    /\ IdleTwin
    /\ InitFos
    /\ InitDownscale
    /\ InitSoil
    /\ InitIngestion

\* the ingest and downscale steps of run_cycle on the sensor file
\* raw_sensors: validate_sensors, then compute_rainfall_grid
ComputeRainfall(raw_sensors, default_rain) ==
    /\ fuse_op' = "downscale"
    /\ fuse_in' = raw_sensors
    /\ fuse_base' = [c \in Cells |-> default_rain]
    /\ IF RaisesKeyError(raw_sensors)
       THEN /\ fuse_raised' = TRUE
            /\ fuse_kept' = <<>>
            /\ fuse_grid' = fuse_grid
       ELSE \E valid_sensors \in {validate_sensors(raw_sensors)} :
            /\ fuse_raised' = FALSE
            /\ fuse_kept' = valid_sensors
            /\ fuse_grid' = compute_rainfall_grid(valid_sensors, default_rain)
    /\ UNCHANGED <<risk_map, alertVars, engineVars, kalmanVars, liveVars, ingestVars, soilVars, downscaleVars, fosVars, twinVars, serverVars, statusVars, riskVars>>

\* the fusion engine on the station readings and the background grid:
\* filter_anomalies, then fuse_rainfall_idw
FuseStations(stations, base_grid) ==
    /\ fuse_op' = "idw"
    /\ fuse_in' = stations
    /\ fuse_base' = base_grid
    /\ fuse_raised' = FALSE
    /\ \E clean_sensors \in {filter_anomalies(stations)} :
         /\ fuse_kept' = clean_sensors
         /\ fuse_grid' = fuse_rainfall_idw(base_grid, clean_sensors)
    /\ UNCHANGED <<risk_map, alertVars, engineVars, kalmanVars, liveVars, ingestVars, soilVars, downscaleVars, fosVars, twinVars, serverVars, statusVars, riskVars>>

NextFuse ==
    \/ \E raw_sensors \in RawLists, default_rain \in DefaultRains :
         ComputeRainfall(raw_sensors, default_rain)
    \/ \E stations \in StationLists, base_grid \in BaseGrids :
         FuseStations(stations, base_grid)

SpecFuse == InitFuse /\ [][NextFuse]_vars

(***************************************************************************)
(* The anomaly filters called directly                                     *)
(***************************************************************************)
\* the values of the readings, in mm/hr: not a number, below the range, the
\* lower bound, a group of close values with a moderate and a gross outlier,
\* and the upper bounds of the two filters with their successors
FilterValues == << NaN, -1, 0, 20, 21, 22, 26, 200, 300, 301, 500, 501 >>

\* the non-decreasing sequences of at most n indices of FilterValues
RECURSIVE NonDecreasing(_)
NonDecreasing(n) ==
    IF n = 0 THEN {<<>>}
    ELSE LET shorter == NonDecreasing(n - 1) IN
         shorter \cup
           {Append(p[1], p[2]) :
              p \in {pp \in shorter \X (1 .. Len(FilterValues)) :
                       pp[1] = <<>> \/ pp[1][Len(pp[1])] <= pp[2]}}

\* the reading lists handed to the filters (the filters do not depend on the
\* order of the readings, so each list is given in ascending order)
FilterInputs ==
    {[i \in 1 .. Len(q) |-> FilterValues[q[i]]] : q \in NonDecreasing(MaxSensors)}

InitFilter ==
    /\ risk_map = MapOf({}, 50, 90)
    /\ clock = MinClock
    /\ InitAlertSystem
    /\ InitEngine
    /\ IdleKalman
    /\ InitLiveLoop
    /\ InitFusion
    /\ IdleRisk
    /\ IdleStatus
    /\ IdleServer
    /\ IdleTwin
    /\ InitFos
    /\ InitDownscale
    /\ InitSoil
    /\ InitIngestion

\* SensorFusion().validate_sensors(raw_sensor_data) on readings with the
\* values vals
ValidateSensors(vals) ==
    /\ fuse_op' = "validate"
    /\ \E raw_sensor_data \in {[i \in 1 .. Len(vals) |-> RawSensor(vals[i], 0, 0)]} :
         /\ fuse_in' = raw_sensor_data
         /\ fuse_kept' = validate_sensors(raw_sensor_data)
    /\ fuse_raised' = FALSE
    /\ UNCHANGED <<fuse_base, fuse_grid>>
    /\ UNCHANGED <<risk_map, alertVars, engineVars, kalmanVars, liveVars, ingestVars, soilVars, downscaleVars, fosVars, twinVars, serverVars, statusVars, riskVars>>

\* SensorFusionEngine().filter_anomalies(stations) on readings with the
\* values vals
FilterAnomalies(vals) ==
    /\ fuse_op' = "filter"
    /\ \E stations \in {[i \in 1 .. Len(vals) |-> Station(vals[i], 0, 0)]} :
         /\ fuse_in' = stations
         /\ fuse_kept' = filter_anomalies(stations)
    /\ fuse_raised' = FALSE
    /\ UNCHANGED <<fuse_base, fuse_grid>>
    /\ UNCHANGED <<risk_map, alertVars, engineVars, kalmanVars, liveVars, ingestVars, soilVars, downscaleVars, fosVars, twinVars, serverVars, statusVars, riskVars>>

\* one call on a fresh filter
NextFilter ==
    /\ fuse_op = "none"
    /\ \E vals \in FilterInputs : ValidateSensors(vals) \/ FilterAnomalies(vals)

SpecFilter == InitFilter /\ [][NextFilter]_vars

(***************************************************************************)
(* Specification of ingestion: the dataset load of the live simulation and *)
(* the operation loop of main over the sensor files it finds               *)
(***************************************************************************)
\* the tables handed to load_shimla_data: complete, with a further column,
\* or with one required column missing
ColumnSets ==
    {required_cols, required_cols \cup {"aspect"}} \cup {required_cols \ {c} : c \in required_cols}

\* the sensor files of a cycle: absent, not parseable, or a list of records
SensorFiles ==
    {SensorFile(FALSE, FALSE, <<>>), SensorFile(TRUE, FALSE, <<>>)}
      \cup {SensorFile(TRUE, TRUE, recs) : recs \in RawLists}

InitIngest ==
    /\ risk_map = [c \in Cells |-> 0]
    /\ clock = MinClock
    /\ InitAlertSystem
    /\ InitEngine
    /\ IdleKalman
    /\ InitLiveLoop
    /\ InitFusion
    /\ IdleRisk
    /\ IdleStatus
    /\ IdleServer
    /\ IdleTwin
    /\ InitFos
    /\ InitDownscale
    /\ InitSoil
    /\ InitIngestion

\* run_live_loop's df = load_shimla_data(csv_path), called without a handler
LoadDataset(exists, columns) ==
    /\ dataset.op = "none"
    /\ \E r \in {load_shimla_data(exists, columns)} :
         dataset' = [op |-> "load", exists |-> exists, columns |-> columns,
                     error |-> r.error, loaded |-> r.loaded]
    /\ UNCHANGED <<sensor_file, main_pc, main_error>>
    /\ UNCHANGED <<risk_map, alertVars, engineVars, kalmanVars, liveVars, fuseVars, soilVars, downscaleVars, fosVars, twinVars, serverVars, statusVars, riskVars>>

\* one pass of main's while loop on the sensor file found: run_cycle ingests
\* and downscales; an exception leaving run_cycle is caught by main, printed
\* and followed by a sleep of 5 s, after which the loop runs the next cycle
MainIteration(file) ==
    /\ main_pc # "stopped"
    /\ sensor_file' = file
    /\ \E raw_sensors \in {read_live_sensors(file)} :
         /\ fuse_op' = "downscale"
         /\ fuse_in' = raw_sensors
         /\ fuse_base' = [c \in Cells |-> 0]
         /\ IF RaisesKeyError(raw_sensors)
            THEN /\ fuse_raised' = TRUE
                 /\ fuse_kept' = <<>>
                 /\ fuse_grid' = fuse_grid
                 /\ main_error' = "KeyError"
                 /\ main_pc' = "sleep_5"
            ELSE \E valid_sensors \in {validate_sensors(raw_sensors)} :
                 /\ fuse_raised' = FALSE
                 /\ fuse_kept' = valid_sensors
                 /\ fuse_grid' = compute_rainfall_grid(valid_sensors, 0)
                 /\ main_error' = "none"
                 /\ main_pc' = "sleep_2"
    /\ UNCHANGED dataset
    /\ UNCHANGED <<risk_map, alertVars, engineVars, kalmanVars, liveVars, soilVars, downscaleVars, fosVars, twinVars, serverVars, statusVars, riskVars>>

\* KeyboardInterrupt: the loop breaks
Interrupt ==
    /\ main_pc # "stopped"
    /\ main_pc' = "stopped"
    /\ UNCHANGED <<dataset, sensor_file, main_error>>
    /\ UNCHANGED <<risk_map, alertVars, engineVars, kalmanVars, liveVars, fuseVars, soilVars, downscaleVars, fosVars, twinVars, serverVars, statusVars, riskVars>>

NextIngest ==
    \/ \E exists \in BOOLEAN, columns \in ColumnSets : LoadDataset(exists, columns)
    \/ \E file \in SensorFiles : MainIteration(file)
    \/ Interrupt

SpecIngest == InitIngest /\ [][NextIngest]_vars

(***************************************************************************)
(* Specification of the soil parameter estimation                          *)
(***************************************************************************)
\* texture percentages, bulk densities and slopes of the cells handed in
TexturePcts == {0, 10, 20, 33, 50, 100}
BulkValues == {120, 135, 150}
SoilSlopes == {0, 30, 60, 80}

InitSoilSpec ==
    /\ risk_map = [c \in Cells |-> 0]
    /\ clock = MinClock
    /\ InitAlertSystem
    /\ InitEngine
    /\ IdleKalman
    /\ InitLiveLoop
    /\ InitFusion
    /\ IdleRisk
    /\ IdleStatus
    /\ IdleServer
    /\ IdleTwin
    /\ InitFos
    /\ InitDownscale
    /\ InitIngestion
    /\ InitSoil

\* df = estimate_soil_parameters(df) on a table of one cell
EstimateSoil(cell) ==
    /\ soil_in' = cell
    /\ soil_out' = [op |-> "estimate", out |-> estimate_soil_parameters(cell)]
    /\ UNCHANGED <<risk_map, alertVars, engineVars, kalmanVars, liveVars, fuseVars, ingestVars, downscaleVars, fosVars, twinVars, serverVars, statusVars, riskVars>>

NextSoil ==
    /\ soil_out.op = "none"
    /\ \E cl \in TexturePcts, sa \in TexturePcts, si \in TexturePcts,
          b \in BulkValues, sl \in SoilSlopes : EstimateSoil(SoilCell(cl, sa, si, b, sl))

SpecSoil == InitSoilSpec /\ [][NextSoil]_vars

(***************************************************************************)
(* Specification of the rainfall downscaling: one call on a coarse grid of *)
(* two cells and a terrain of 2 x 4 cells covering the same extent         *)
(***************************************************************************)
\* coarse rainfall grids, dry cells and cells of 1, 2, 20 and 30 rain units
CoarseGrids == {<< <<a, b>> >> : a \in {0, 1, 2, 20, 30}, b \in {0, 1, 2, 20, 30}}

\* terrains: flat, a step across the columns, a uniform ramp, and a slope
\* across the rows that steepens towards one corner
Terrains ==
    {<< <<0, 0, 0, 0>>, <<0, 0, 0, 0>> >>,
     << <<0, 0, 10, 10>>, <<0, 0, 10, 10>> >>,
     << <<0, 10, 20, 30>>, <<0, 10, 20, 30>> >>,
     << <<0, 0, 0, 0>>, <<10, 10, 10, 20>> >>}

\* the coarse resolution at which the two grids cover the same extent
CoarseRes(coarse, grid) == (fine_res * Len(grid[1])) \div Len(coarse[1])

InitDownscaleSpec ==
    /\ risk_map = [c \in Cells |-> 0]
    /\ clock = MinClock
    /\ InitAlertSystem
    /\ InitEngine
    /\ IdleKalman
    /\ InitLiveLoop
    /\ InitFusion
    /\ IdleRisk
    /\ IdleStatus
    /\ IdleServer
    /\ IdleTwin
    /\ InitFos
    /\ InitIngestion
    /\ InitSoil
    /\ InitDownscale

\* rain_fine = downscale_rainfall(coarse_rain, dem, coarse_res, fine_res, mode)
Downscale(coarse, grid, m, kind) ==
    /\ coarse_rain' = coarse
    /\ dem' = grid
    /\ mode' = m
    /\ \E r \in {downscale_rainfall(coarse, grid, CoarseRes(coarse, grid), m, kind)} :
         /\ rain_corrected' = r.corrected
         /\ rain_fine' = r.returned
    /\ UNCHANGED <<risk_map, alertVars, engineVars, kalmanVars, liveVars, fuseVars, ingestVars, soilVars, fosVars, twinVars, serverVars, statusVars, riskVars>>

NextDownscale ==
    /\ mode = "none"
    /\ \E coarse \in CoarseGrids, grid \in Terrains :
         \/ Downscale(coarse, grid, "deterministic", 1)
         \/ \E kind \in 1 .. 3 : Downscale(coarse, grid, "stochastic", kind)

SpecDownscale == InitDownscaleSpec /\ [][NextDownscale]_vars

(***************************************************************************)
(* Specification of the factor of safety: one call on one cell             *)
(***************************************************************************)
\* slopes: flat, 30, 45 and 90 degrees
FosSlopes == {0, 300, 450, 900}
\* cohesions: none, 0.01 kPa and 5 kPa
Cohesions == {0, 10, 5000}
\* friction angles: none, half a degree, 20, 30 and 35 degrees
FrictionAngles == {0, 5, 200, 300, 350}
\* unit weights: none, below and above that of water
UnitWeights == {0, 5000, 13500, 20000}
\* soil depths: none, 1 m and 5 m
SoilDepths == {0, 1000, 5000}
\* ksat of 1e-7 and 1e-5 m/s
KsatValues == {100, 10000}
Saturations == {0, 200, 1000}
\* rainfall intensities, mm/hr
RainIntensities == {0, 10, 100}

InitFosSpec ==
    /\ risk_map = [c \in Cells |-> 0]
    /\ clock = MinClock
    /\ InitAlertSystem
    /\ InitEngine
    /\ IdleKalman
    /\ InitLiveLoop
    /\ InitFusion
    /\ IdleRisk
    /\ IdleStatus
    /\ IdleServer
    /\ IdleTwin
    /\ InitIngestion
    /\ InitSoil
    /\ InitDownscale
    /\ InitFos

\* fos_values = compute_fos_vectorized(...) on one cell
ComputeFos(cell) ==
    /\ fos_in' = cell
    /\ fos_out' = [op |-> "fos", out |-> compute_fos_vectorized(cell)]
    /\ UNCHANGED <<risk_map, alertVars, engineVars, kalmanVars, liveVars, fuseVars, ingestVars, soilVars, downscaleVars, twinVars, serverVars, statusVars, riskVars>>

NextFos ==
    /\ fos_out.op = "none"
    /\ \E sl \in FosSlopes, co \in Cohesions, ph \in FrictionAngles, ga \in UnitWeights,
          de \in SoilDepths, ks \in KsatValues, sat \in Saturations, rn \in RainIntensities :
         ComputeFos(FosCell(sl, co, ph, ga, de, ks, sat, rn))

SpecFos == InitFosSpec /\ [][NextFos]_vars

(***************************************************************************)
(* Two KalmanFuser objects updated side by side: every call hands both the *)
(* same source type and the same measurement in the cell kf_cell, and     *)
(* different measurements in the other cell                                *)
(***************************************************************************)
\* the source types of the calls: the three the pipeline names and one it
\* does not
MixSourceTypes == SourceTypes \cup {"lidar"}

MixMeasurements == {-2 * Scale, 3 * Scale + 1}

InitKalmanMix ==
    /\ risk_map = MapOf({}, 50, 90)
    /\ clock = MinClock
    /\ InitAlertSystem
    /\ InitEngine
    /\ InitLiveLoop
    /\ InitFusion
    /\ IdleRisk
    /\ IdleStatus
    /\ IdleServer
    /\ InitFos
    /\ InitDownscale
    /\ InitSoil
    /\ InitIngestion
    /\ IdleKalman
    /\ kf2_x = x0
    /\ kf2_P = P0
    /\ measurement_grid2 = x0
    /\ kf_cell \in KCells
    /\ kf_sources = <<>>

\* fuser.update(zs, src) and twin.update(zs2, src)
KalmanUpdatePair(zs, zs2, src) ==
    /\ \E r \in {update(kf_x, kf_P, zs, src)} :
         /\ kf_x' = r.x
         /\ kf_P' = r.P
         /\ kf_prev' = [x |-> kf_x, P |-> kf_P, K |-> r.K]
    /\ \E r2 \in {update(kf2_x, kf2_P, zs2, src)} :
         /\ kf2_x' = r2.x
         /\ kf2_P' = r2.P
    /\ kf_updated' = TRUE
    /\ measurement_grid' = zs
    /\ measurement_grid2' = zs2
    /\ source_type' = src
    /\ kf_sources' = Append(kf_sources, src)
    /\ UNCHANGED <<risk_map, alertVars, engineVars, liveVars, fuseVars, ingestVars, soilVars, downscaleVars, fosVars, kf_cell, serverVars, statusVars, riskVars>>

NextKalmanMix ==
    /\ Len(kf_sources) < MaxUpdates
    /\ \E src \in MixSourceTypes : \E zs \in [KCells -> MixMeasurements] :
         \E zs2 \in {g \in [KCells -> MixMeasurements] :
                         \A i \in KCells : (g[i] = zs[i]) <=> (i = kf_cell)} :
           KalmanUpdatePair(zs, zs2, src)

SpecKalmanMix == InitKalmanMix /\ [][NextKalmanMix]_vars

(***************************************************************************)
(* The inference server: /predict requests against the module-level runner *)
(* (inference/server.py), each running InferenceRunner.predict and, in it, *)
(* KalmanFuser.update on the runner's fuser statement by statement         *)
(***************************************************************************)
\* the places of a handler between entering update and leaving it (a place
\* is the line of kalman_fusion.py executed last; "l58" is the return to
\* line 58 of runner.py)
InUpdate == {"l37", "l38", "l50"}

\* a handler declared def: the server runs it on a thread of its pool whenever
\* the request arrives
ThreadFree(r) == TRUE

\* predict_risk is declared async def and awaits nothing: the event loop runs
\* it from its first statement to its return before it starts another handler
LoopFree(r) == \A q \in Requests \ {r} : req_pc[q] \in {"none", "pending", "200", "500"}

\* the grids downscale_rainfall hands to update
RainGrids == [KCells -> {3 * Scale + 1, 7 * Scale}]

InitServer ==
    /\ risk_map = MapOf({}, 50, 90)
    /\ clock = MinClock
    /\ InitAlertSystem
    /\ InitEngine
    /\ InitLiveLoop
    /\ InitFusion
    /\ IdleRisk
    /\ IdleStatus
    /\ InitFos
    /\ InitDownscale
    /\ InitSoil
    /\ InitIngestion
    /\ IdleKalman
    /\ IdleTwin
    /\ IdleServer

serverFrame == <<risk_map, alertVars, engineVars, liveVars, fuseVars, ingestVars, soilVars, downscaleVars, fosVars, twinVars, statusVars, riskVars>>

\* a client posts /predict
Arrive(r) ==
    /\ req_pc[r] = "none"
    /\ req_pc' = [req_pc EXCEPT ![r] = "pending"]
    /\ UNCHANGED <<serverFrame, kalmanVars, req_local, kf_ver, statusVars, riskVars>>

\* the handler starts: predict downscales a rain grid and calls
\* self.fusion_engine.update(rain_fine, 'satellite'), whose first statement
\* is x_pred = self.x
Begin(r, zs) ==
    /\ req_pc[r] = "pending"
    /\ LoopFree(r)
    /\ req_pc' = [req_pc EXCEPT ![r] = "l37"]
    /\ req_local' = [req_local EXCEPT ![r] = [NoLocals EXCEPT !.x_pred = kf_x, !.xv = kf_ver.x, !.z = zs]]
    /\ measurement_grid' = zs
    /\ source_type' = "satellite"
    /\ UNCHANGED <<serverFrame, kf_x, kf_P, kf_prev, kf_updated, kf_ver>>

\* P_pred = self.P + self.Q
ReadP(r) ==
    /\ req_pc[r] = "l37"
    /\ req_pc' = [req_pc EXCEPT ![r] = "l38"]
    /\ req_local' = [req_local EXCEPT ![r].P_pred = [i \in KCells |-> Predict(kf_P[i])], ![r].pv = kf_ver.P]
    /\ UNCHANGED <<serverFrame, kalmanVars, kf_ver, statusVars, riskVars>>

\* the gain of the request's update: K = P_pred / (P_pred + R)
GainOf(r) == [i \in KCells |-> KalmanGain(req_local[r].P_pred[i], MeasurementNoise("satellite"))]

\* self.x = x_pred + K * y
WriteX(r) ==
    /\ req_pc[r] = "l38"
    /\ req_pc' = [req_pc EXCEPT ![r] = "l50"]
    /\ kf_x' = [i \in KCells |->
                  StateUpdate(req_local[r].x_pred[i], GainOf(r)[i],
                              Innovation(req_local[r].z[i], req_local[r].x_pred[i]))]
    /\ kf_ver' = [kf_ver EXCEPT !.x = @ + 1]
    /\ UNCHANGED <<serverFrame, kf_P, measurement_grid, source_type, kf_prev, kf_updated, req_local>>

\* self.P = (1.0 - K) * P_pred; return self.x
WriteP(r) ==
    /\ req_pc[r] = "l50"
    /\ req_pc' = [req_pc EXCEPT ![r] = "l58"]
    /\ kf_P' = [i \in KCells |-> CovarianceUpdate(GainOf(r)[i], req_local[r].P_pred[i])]
    /\ kf_ver' = [kf_ver EXCEPT !.P = @ + 1]
    /\ kf_prev' = [x |-> req_local[r].x_pred,
                   P |-> [i \in KCells |-> req_local[r].P_pred[i] - Q],
                   K |-> GainOf(r)]
    /\ kf_updated' = TRUE
    /\ UNCHANGED <<serverFrame, kf_x, measurement_grid, source_type, req_local>>

\* the rest of predict, from compute_fos_grid on: it touches neither self.x
\* nor self.P.  models/fisical_fos.py does not define compute_fos_grid, so
\* the call either returns (the response is the result, 200) or raises
\* (predict_risk answers HTTPException 500)
Respond(r, ok) ==
    /\ req_pc[r] = "l58"
    /\ req_pc' = [req_pc EXCEPT ![r] = IF ok THEN "200" ELSE "500"]
    /\ UNCHANGED <<serverFrame, kalmanVars, req_local, kf_ver, statusVars, riskVars>>

NextServer ==
    \/ \E r \in Requests : Arrive(r)
    \/ \E r \in Requests : \E zs \in RainGrids : Begin(r, zs)
    \/ \E r \in Requests : ReadP(r)
    \/ \E r \in Requests : WriteX(r)
    \/ \E r \in Requests : WriteP(r)
    \/ \E r \in Requests : \E ok \in BOOLEAN : Respond(r, ok)

SpecServer == InitServer /\ [][NextServer]_vars

(***************************************************************************)
(* The status file: run_cycle writes system_status.json at the end of      *)
(* every cycle (main.py) while the dashboard process serves GET            *)
(* /api/status from it (web/app.py).  A record is named by the number of   *)
(* the cycle that wrote it; the file an earlier run of the supervisor left  *)
(* holds record 0.                                                         *)
(***************************************************************************)
InitStatus ==
    /\ risk_map = MapOf({}, 50, 90)
    /\ clock = MinClock
    /\ InitAlertSystem
    /\ InitEngine
    /\ InitLiveLoop
    /\ InitFusion
    /\ IdleRisk
    /\ InitFos
    /\ InitDownscale
    /\ InitSoil
    /\ InitIngestion
    /\ IdleKalman
    /\ IdleTwin
    /\ IdleServer
    /\ status_file \in {[content |-> "absent", cycle |-> 0], [content |-> "record", cycle |-> 0]}
    /\ cycle_pc = "idle"
    /\ cycle_no = 0
    /\ dash_pc = "idle"
    /\ dash_resp = [status |-> "none", cycle |-> 0, begun |-> 0]

statusFrame == <<risk_map, alertVars, engineVars, kalmanVars, liveVars, fuseVars, ingestVars, soilVars, downscaleVars, fosVars, twinVars, serverVars, riskVars>>

\* open(os.path.join(config.OUTPUT_DIR, 'system_status.json'), 'w'): the file
\* is created or truncated
OpenStatus ==
    /\ cycle_pc = "idle"
    /\ cycle_no < MaxCycles
    /\ cycle_pc' = "opened"
    /\ cycle_no' = cycle_no + 1
    /\ status_file' = [content |-> "empty", cycle |-> 0]
    /\ UNCHANGED <<statusFrame, dash_pc, dash_resp>>

\* json.dump(status, f) and the end of the with block: the record, which is
\* shorter than the file object's buffer, reaches the file when it is closed
DumpStatus ==
    /\ cycle_pc = "opened"
    /\ cycle_pc' = "idle"
    /\ status_file' = [content |-> "record", cycle |-> cycle_no]
    /\ UNCHANGED <<statusFrame, cycle_no, dash_pc, dash_resp>>

\* get_status: if os.path.exists(STATUS_FILE) ... else WAITING_FOR_ENGINE
StatusExists ==
    /\ dash_pc = "idle"
    /\ IF status_file.content = "absent"
         THEN /\ dash_resp' = [status |-> "WAITING_FOR_ENGINE", cycle |-> 0, begun |-> cycle_no]
              /\ dash_pc' = "idle"
         ELSE /\ dash_pc' = "exists"
              /\ UNCHANGED dash_resp
    /\ UNCHANGED <<statusFrame, status_file, cycle_pc, cycle_no>>

\* with open(STATUS_FILE, 'r') as f: data = json.load(f); return jsonify(data)
\* and, when json.load raises, except Exception: the FILE_ERROR answer
StatusLoad ==
    /\ dash_pc = "exists"
    /\ dash_pc' = "idle"
    /\ dash_resp' = IF status_file.content = "record"
                      THEN [status |-> "record", cycle |-> status_file.cycle, begun |-> cycle_no]
                      ELSE [status |-> "FILE_ERROR", cycle |-> 0, begun |-> cycle_no]
    /\ UNCHANGED <<statusFrame, status_file, cycle_pc, cycle_no>>

NextStatus ==
    \/ OpenStatus
    \/ DumpStatus
    \/ StatusExists
    \/ StatusLoad

SpecStatus == InitStatus /\ [][NextStatus]_vars

(***************************************************************************)
(* The whole cycle of the supervisor: sensor file, rainfall grid, risk    *)
(* engine, alert logic and status record                                   *)
(***************************************************************************)
\* slope.npy: steep everywhere; flat everywhere; two cells just below the
\* threshold; one cell exactly at it
SlopeGrids ==
    {[c \in Cells |-> 30], [c \in Cells |-> 5],
     [c \in Cells |-> IF c \in {<<0, 0>>, <<2, 0>>} THEN 9 ELSE 30],
     [c \in Cells |-> IF c = <<0, 0>> THEN 10 ELSE 45]}

\* soil_stability.npy: the mean and the largest value of the mock data
SoilGrids == {[c \in Cells |-> 50], [c \in Cells |-> 100]}

\* the sensor files of a cycle: none, light rain, heavy rain from one and
\* from two sensors, and a reading that is not a number
CycleSensors ==
    {<<>>, <<RawSensor(20, 0, 0)>>, <<RawSensor(120, 250, 150)>>,
     <<RawSensor(120, 250, 150), RawSensor(300, 100, 200)>>,
     <<RawSensor(120, 250, 150), RawSensor(NaN, 0, 0)>>}

\* SentinelSupervisor.__init__
InitRisk ==
    /\ risk_map = [c \in Cells |-> 0]
    /\ clock = MinClock
    /\ InitAlertSystem
    /\ InitEngine
    /\ IdleKalman
    /\ InitLiveLoop
    /\ InitFusion
    /\ IdleStatus
    /\ IdleServer
    /\ IdleTwin
    /\ InitFos
    /\ InitDownscale
    /\ InitSoil
    /\ InitIngestion
    /\ slope_npy \in SlopeGrids
    /\ soil_npy \in SoilGrids
    /\ static_mask = StaticMask(slope_npy)

\* SentinelSupervisor.run_cycle on the sensor file raw_sensors, dt seconds
\* after the previous clock reading
FullCycle(raw_sensors, dt) ==
    /\ clock + dt <= MaxClock
    /\ clock' = clock + dt
    /\ \E valid_sensors \in {validate_sensors(raw_sensors)} :
       \E rain_grid \in {RainGridOf(valid_sensors)} :
       \E rm \in {compute_risk(FeatureStack(rain_grid, slope_npy, soil_npy), static_mask)} :
       \E r \in {check_alert_conditions(rm, clock + dt, last_alert_time, alert_outbox)} :
         /\ fuse_op' = "downscale"
         /\ fuse_in' = raw_sensors
         /\ fuse_kept' = valid_sensors
         /\ fuse_base' = [c \in Cells |-> 0]
         /\ fuse_grid' = rain_grid
         /\ fuse_raised' = FALSE
         /\ risk_map' = rm
         /\ fill' = r.fill
         /\ result' = [alert |-> r.alert, msg |-> r.msg, called |-> TRUE]
         /\ last_alert_time' = r.last
         /\ alert_outbox' = r.outbox
         /\ status' = [StatusRecord(rm, clock + dt, r) EXCEPT !.max_risk = MaxRisk(rm)]
    /\ prev_text' = result.msg.text
    /\ UNCHANGED <<engineVars, kalmanVars, liveVars, ingestVars, soilVars, downscaleVars, fosVars, twinVars, serverVars, statusVars, riskVars>>

NextRisk == \E raw_sensors \in CycleSensors, dt \in {1800, 3600} : FullCycle(raw_sensors, dt)

SpecRisk == InitRisk /\ [][NextRisk]_vars

(***************************************************************************)
(* Properties                                                              *)
(***************************************************************************)
\* the 4-connected components of a set of cells
Components(mask) == {Grow({c}, {c}, mask) : c \in mask}
\* some component of mask has at least n cells
HasCluster(mask, n) == \E K \in Components(mask) : Cardinality(K) >= n
StrictlyAbove(rm, t) == {c \in Cells : rm[c] > t}
AtOrAbove(rm, t) == {c \in Cells : rm[c] >= t}
\* the alert condition: a 4-connected cluster of at least MIN_CLUSTER_SIZE
\* cells above RISK_THRESHOLD
AlertCondition(rm) == HasCluster(StrictlyAbove(rm, RISK_THRESHOLD), MIN_CLUSTER_SIZE)
LastSent == alert_outbox[Len(alert_outbox)]

\* C1: AlertSystem cooldown.  The messages of alert_outbox were sent at least
\* ALERT_COOLDOWN_SECONDS apart, so triggering cycles less than a cooldown
\* apart leave exactly one message; a triggering cycle that did not send
\* returned (False, "COOLDOWN") and is less than a cooldown after the last
\* message, so a triggering cycle a cooldown or more after it sends; a
\* triggering cycle that sent appended its message.
C1_Cooldown ==
    /\ \A i \in 2 .. Len(alert_outbox) :
         alert_outbox[i].ts - alert_outbox[i - 1].ts >= ALERT_COOLDOWN_SECONDS
    /\ (result.called /\ AlertCondition(risk_map)) =>
         /\ alert_outbox # <<>>
         /\ result.alert => (LastSent.ts = clock /\ LastSent.msg = result.msg)
         /\ ~result.alert => (/\ result.msg = MsgCooldown
                              /\ clock - LastSent.ts < ALERT_COOLDOWN_SECONDS)

\* C1 witness: a second message has just been sent, by the triggering cycle
\* that followed a suppressed one
C1_Witness ==
    /\ Len(alert_outbox) = 2
    /\ result.alert
    /\ prev_text = "COOLDOWN"

\* C2: every generated alert message, and every message stored in an outbox,
\* has at most 160 characters.
C2_MessageLength ==
    /\ sms_last.len <= SmsLimit
    /\ \A i \in 1 .. Len(sms_outbox) : sms_outbox[i].len <= SmsLimit
    /\ \A i \in 1 .. Len(engine_alerts) : engine_alerts[i].sms.len <= SmsLimit
    /\ result.msg.len <= SmsLimit
    /\ \A i \in 1 .. Len(alert_outbox) : alert_outbox[i].msg.len <= SmsLimit

\* the cells at or above threshold t form one connected region of n cells
SingleRegionOf(rm, t, n) ==
    /\ Cardinality(AtOrAbove(rm, t)) = n
    /\ Cardinality(Components(AtOrAbove(rm, t))) = 1

\* C3: cluster size threshold.  When the cells at or above the threshold form
\* a single connected region, a region of min_size - 1 cells produces no
\* alert and a region of min_size cells produces exactly one (for AlertSystem
\* on a fresh system, where no cooldown is active).
C3_ClusterSizeThreshold ==
    /\ engine_called =>
         /\ SingleRegionOf(risk_map, secondary_thresh, cluster_min_size - 1)
              => Len(engine_alerts) = 0
         /\ SingleRegionOf(risk_map, secondary_thresh, cluster_min_size)
              => Len(engine_alerts) = 1
    /\ result.called =>
         /\ SingleRegionOf(risk_map, RISK_THRESHOLD, MIN_CLUSTER_SIZE - 1)
              => (~result.alert /\ Len(alert_outbox) = 0)
         /\ SingleRegionOf(risk_map, RISK_THRESHOLD, MIN_CLUSTER_SIZE)
              => (result.alert /\ Len(alert_outbox) = 1)

\* C4: a cooldown-suppressed cycle is told apart from "no risk detected".
\* (False, "COOLDOWN") is returned only when the alert condition holds and the
\* cooldown is active, (False, "") only when it does not hold, and the status
\* record of the cycle carries the returned pair.
C4_SuppressedDistinct ==
    result.called =>
        /\ result.msg = MsgCooldown =>
             (/\ ~result.alert
              /\ AlertCondition(risk_map)
              /\ clock - last_alert_time < ALERT_COOLDOWN_SECONDS)
        /\ result.msg = MsgNone => (~result.alert /\ ~AlertCondition(risk_map))
        /\ result.alert => result.msg.text = "ALERT"
        /\ status.alert_active = result.alert
        /\ status.last_alert_msg = result.msg

\* C4 witness: a cycle whose alert was suppressed has written its status
C4_Witness ==
    /\ result.called
    /\ AlertCondition(risk_map)
    /\ result.msg = MsgCooldown
    /\ status.last_alert_msg = MsgCooldown

\* C5: alert clusters are exactly the 4-connected components of the cells with
\* risk >= threshold; a cell whose risk equals the threshold is in the set.
\* For AlertSystem: the cells it clusters are those at or above
\* RISK_THRESHOLD, and its flood fill finds one cluster per component.  For
\* AlertEngine: its alerts are the components, of at least cluster_min_size
\* cells, of the cells at or above secondary_thresh.
C5_FourConnectedComponents ==
    /\ result.called =>
         /\ fill.points = AtOrAbove(risk_map, RISK_THRESHOLD)
         /\ fill.ran =>
              /\ fill.visited = fill.points
              /\ fill.num_clusters = Cardinality(Components(fill.points))
              /\ \A K \in Components(fill.points) :
                   \E i \in 1 .. Len(fill.sizes) : fill.sizes[i] = Cardinality(K)
    /\ engine_called =>
         {engine_alerts[i].cells : i \in 1 .. Len(engine_alerts)}
             = {K \in Components(AtOrAbove(risk_map, secondary_thresh)) :
                  Cardinality(K) >= cluster_min_size}

\* the measurement noise of the run
RunNoise == MeasurementNoise(source_type)
\* the positive root of P^2 + Q P - Q R = 0, the fixed point of
\* P = (1 - K)(P + Q) with K = (P + Q)/(P + Q + R)
SteadyStateP(r) == (ISqrt(Q * Q + 4 * Q * r) - Q) \div 2
\* Q R / (Q + R)
ParallelQR(r) == RoundDiv(Q * r, Q + r)
\* within two rounding units of the steady state
NearSteadyState(p, r) == Abs(p - SteadyStateP(r)) <= 2
\* the last update left the covariance as it was
CovarianceSteady == kf_updated /\ kf_P = kf_prev.P

\* C6 as stated: after every update the covariance of every cell is strictly
\* smaller than before it.
C6_StrictDecreaseEveryStep ==
    kf_updated => \A i \in KCells : kf_P[i] < kf_prev.P[i]

\* C6, amended: an update strictly decreases the covariance of every cell
\* until the covariance is within rounding error of its steady state; from
\* then on an update changes it by at most one rounding unit.
C6_DecreaseUntilSteady ==
    kf_updated =>
        \A i \in KCells :
            \/ kf_P[i] < kf_prev.P[i]
            \/ /\ NearSteadyState(kf_prev.P[i], RunNoise)
               /\ Abs(kf_P[i] - kf_prev.P[i]) <= 1

\* the update of a gauge run that strictly decreased the covariance to
\* within rounding error of the steady state
C6_Witness ==
    /\ kf_updated
    /\ source_type = "gauge"
    /\ \A i \in KCells :
         /\ kf_P[i] < kf_prev.P[i]
         /\ ~NearSteadyState(kf_prev.P[i], R_gauge)
         /\ NearSteadyState(kf_P[i], R_gauge)

\* C7 as stated: the covariance settles at Q R / (Q + R) (to within a tenth
\* of that value).
C7_SettlesAtParallelQR ==
    CovarianceSteady =>
        \A i \in KCells :
            10 * Abs(kf_P[i] - ParallelQR(RunNoise)) <= ParallelQR(RunNoise)

\* C7, amended: the covariance converges to the fixed point of
\* P = (1 - K)(P + Q), K = (P + Q)/(P + Q + R), which is the positive root of
\* P^2 + Q P - Q R = 0: whenever an update leaves P unchanged P is within
\* rounding error of that root, and P is eventually within rounding error of
\* it for good.
C7_SteadyState ==
    /\ [](CovarianceSteady =>
            \A i \in KCells : NearSteadyState(kf_P[i], RunNoise))
    /\ <>[](\A i \in KCells : NearSteadyState(kf_P[i], RunNoise))

\* a satellite run whose covariance has stopped changing, at the root
C7_Witness ==
    /\ CovarianceSteady
    /\ source_type = "satellite"
    /\ \A i \in KCells : NearSteadyState(kf_P[i], R_sat)

\* v lies between a and b
Between(v, a, b) == (a <= v /\ v <= b) \/ (b <= v /\ v <= a)
\* the estimate is within one rounding unit of the measurement
EstimateAtMeasurement ==
    \A i \in KCells : Abs(measurement_grid[i] - kf_x[i]) <= 1

\* C8: with the same measurement grid z at every update, after every update
\* |z - x| of every cell is no larger than before, x lies between its
\* previous value and z (no overshoot), and x eventually stays within
\* rounding error of z.
C8_MonotoneConvergence ==
    /\ [](kf_updated =>
            \A i \in KCells :
                /\ Abs(measurement_grid[i] - kf_x[i])
                     <= Abs(measurement_grid[i] - kf_prev.x[i])
                /\ Between(kf_x[i], kf_prev.x[i], measurement_grid[i]))
    /\ <>[]EstimateAtMeasurement

\* an update that moved one cell up and the other down, each to within
\* rounding error of its measurement
C8_Witness ==
    /\ kf_updated
    /\ EstimateAtMeasurement
    /\ \E i, j \in KCells :
         /\ measurement_grid[i] < 0 /\ kf_x[i] < kf_prev.x[i]
         /\ measurement_grid[j] > 0 /\ kf_x[j] > kf_prev.x[j]

\* C9: the saturation of every cell lies in [0.1, 1.0] before and after every
\* cycle, and a cycle leaves the previous value times 0.98 plus the recharge
\* of the driving rainfall, clamped once to that range.
C9_SaturationBounded ==
    \A i \in LiveCells :
        /\ SatFloor <= current_saturation[i]
        /\ current_saturation[i] <= SatCeil
        /\ live_cycled =>
             LET raw == RoundDiv(sat_prev[i] * DecayPct, 100) + max_rain IN
             /\ raw < SatFloor => current_saturation[i] = SatFloor
             /\ raw > SatCeil => current_saturation[i] = SatCeil
             /\ (SatFloor <= raw /\ raw <= SatCeil) => current_saturation[i] = raw

\* a cycle whose rainfall lifted the saturation past the ceiling, clamped
C9_Witness ==
    /\ live_cycled
    /\ max_rain > 0
    /\ \A i \in LiveCells :
         /\ current_saturation[i] = SatCeil
         /\ RoundDiv(sat_prev[i] * DecayPct, 100) + max_rain > SatCeil

\* no reading reached the interpolation: none was supplied, or the filter
\* rejected every one of them
NoSensorLeft ==
    /\ fuse_op # "none"
    /\ \/ fuse_in = <<>>
       \/ /\ fuse_kept = <<>>
          /\ fuse_op = "downscale" => \A i \in 1 .. Len(fuse_in) : fuse_in[i].key

\* C10: when no reading is supplied, or the anomaly filter rejects all of
\* them, the call does not raise and the rainfall grid it returns is the
\* background grid (the default rain in every cell), unmodified.
C10_ZeroSensorFallback ==
    NoSensorLeft => ~fuse_raised /\ fuse_grid = fuse_base

\* a sensor file whose records were all rejected, downscaled to a default
\* rain of 2.5 mm/hr in every cell
C10_Witness ==
    /\ fuse_op = "downscale"
    /\ fuse_in # <<>>
    /\ fuse_kept = <<>>
    /\ ~fuse_raised
    /\ fuse_grid = [c \in Cells |-> 25]

\* one of the two anomaly filters has been called
FilterRan == fuse_op \in {"validate", "filter"}
\* the upper bound of the filter called: config.MAX_VALID_RAINFALL_MM_HR in
\* validate_sensors, 500 mm/hr in filter_anomalies
UpperBound == IF fuse_op = "validate" THEN MAX_VALID_RAINFALL_MM_HR ELSE 500
\* the least number of readings the statistical check is made for: more
\* than 5 in validate_sensors, more than 4 in filter_anomalies
MinCount == IF fuse_op = "validate" THEN 6 ELSE 5
InRange(v) == v # NaN /\ 0 <= v /\ v <= UpperBound
\* the values handed to the filter, those of them within the bounds, and
\* the values the filter returned
InVals == ValuesOf(fuse_in)
InRangeVals == SelectSeq(InVals, InRange)
KeptVals == ValuesOf(fuse_kept)
\* how many times v occurs in seq
Count(seq, v) == Cardinality({i \in 1 .. Len(seq) : seq[i] = v})
\* no reading with the value v was removed
AllKept(v) == Count(KeptVals, v) = Count(InVals, v)
\* every reading within the bounds was returned
InRangeKept == \A i \in 1 .. Len(InRangeVals) : AllKept(InRangeVals[i])

\* C11: every reading an anomaly filter returns has a value within the
\* filter's bounds, however many readings there are, and with too few
\* readings for the statistical check every reading within the bounds is
\* returned.
C11_HardBounds ==
    FilterRan =>
        /\ \A i \in 1 .. Len(KeptVals) : InRange(KeptVals[i])
        /\ Len(InVals) < MinCount => InRangeKept

\* C12: with fewer readings than the statistical check needs, a filter
\* returns every reading within the bounds, however far from the others.
C12_FewSensorsNoOutlierCheck ==
    (FilterRan /\ Len(InVals) < MinCount) => InRangeKept

\* four stations, one of them far above the other three, all returned
C12_Witness ==
    /\ fuse_op = "filter"
    /\ InVals = <<20, 20, 20, 200>>
    /\ KeptVals = InVals

\* C13: when the median absolute deviation of the readings is exactly 0, no
\* reading within the bounds is rejected.
C13_ZeroMadSkipsFilter ==
    (/\ FilterRan
     /\ InRangeVals # <<>>
     /\ Mad4(InVals) = 0
     /\ Mad4(InRangeVals) = 0) => InRangeKept

\* C14: when there are enough readings within the bounds and their median
\* absolute deviation is positive, a reading x within the bounds is rejected
\* exactly when |0.6745 (x - median) / MAD| > 3.5, median and MAD being those
\* of the readings within the bounds.
C14_ModifiedZScore ==
    (/\ FilterRan
     /\ Len(InRangeVals) >= MinCount
     /\ Mad4(InRangeVals) > 0) =>
        \A i \in 1 .. Len(InRangeVals) :
            LET xv == InRangeVals[i] IN
            (Count(KeptVals, xv) = 0)
              <=> (6745 * 2 * Abs(2 * xv - Median2(InRangeVals))
                     > 35000 * Mad4(InRangeVals))

\* the sensor file of the last cycle could not be parsed
MalformedFile == sensor_file.exists /\ ~sensor_file.parses
\* the sensor file of the last cycle holds a record without a value
MalformedRecord ==
    sensor_file.exists /\ sensor_file.parses /\ RaisesKeyError(sensor_file.records)
\* the loop has run a cycle
Cycled == sensor_file.exists \/ fuse_op = "downscale"

\* C15: an input validation failure is surfaced to the caller at once and
\* is not retried: a table without a required column raises ValueError and
\* is not returned; a sensor file that cannot be parsed, or one with a
\* malformed record, makes its cycle raise instead of completing
C15_ValidationSurfaced ==
    /\ (dataset.op = "load" /\ dataset.exists /\ ~(required_cols \subseteq dataset.columns))
         => (dataset.error = "ValueError" /\ ~dataset.loaded)
    /\ (Cycled /\ (MalformedFile \/ MalformedRecord))
         => (main_error # "none" /\ fuse_raised)

\* C16: for a cell with clay + sand + silt = 0 estimate_soil_parameters
\* signals an error instead of dividing by zero and returning an undefined
\* (NaN) cohesion, friction angle or Ksat
C16_ZeroTextureGuard ==
    (soil_out.op = "estimate" /\ soil_in.clay + soil_in.sand + soil_in.silt = 0)
      => /\ soil_out.out.error # "none"
         /\ ~(soil_out.out.c = NaN \/ soil_out.out.phi = NaN \/ soil_out.out.log_k = NaN)

\* the volume of the coarse grid handed in and of the grid after the mass
\* balance
CoarseVolume == TotalRainCoarse(coarse_rain, Len(dem), Len(dem[1]), CoarseRes(coarse_rain, dem))
FineVolume == TotalRainFine(rain_corrected)
\* the volume of the fine grid before the mass balance
UncorrectedVolume == TotalRainFine(WeightedRain(coarse_rain, dem))
\* the two volumes agree within 1e-3 of the coarse one
MassConserved == 1000 * Abs(FineVolume - CoarseVolume) <= CoarseVolume

FosDone == fos_out.op = "fos"

\* C18: on flat terrain (slope 0) with zero rain and zero saturation the
\* factor of safety is its maximum 10.0 for every cohesion, friction angle,
\* unit weight and depth with cohesion > 0 or friction angle > 0
C18_FlatTerrainStable ==
    (FosDone /\ fos_in.slope_deg = 0 /\ fos_in.rain = 0 /\ fos_in.saturation = 0
       /\ (fos_in.c > 0 \/ fos_in.phi > 0))
      => fos_out.out.fos = FosMax

\* C19: on a 45 degree slope with cohesion 0, friction angle 30 degrees,
\* saturation 1.0 and rain at or above ksat, the factor of safety is below
\* 1.0 for every positive unit weight and depth
C19_SaturatedSteepUnstable ==
    (FosDone /\ fos_in.slope_deg = 450 /\ fos_in.c = 0 /\ fos_in.phi = 300
       /\ fos_in.saturation = 1000 /\ RainRate(fos_in.rain) >= fos_in.ksat
       /\ fos_in.gamma > 0 /\ fos_in.depth > 0)
      => fos_out.out.fos < 1000
\* such a cell with a unit weight above that of water, whose effective
\* stress and factor of safety are positive
C19_Witness ==
    /\ FosDone /\ fos_in.slope_deg = 450 /\ fos_in.c = 0 /\ fos_in.phi = 300
    /\ fos_in.saturation = 1000 /\ RainRate(fos_in.rain) >= fos_in.ksat
    /\ fos_in.gamma = 20000 /\ fos_in.depth = 5000
    /\ fos_out.out.h_w = fos_in.depth
    /\ fos_out.out.sigma_prime > 0
    /\ fos_out.out.fos > 0

Coincides(c, s) ==
    IF fuse_op = "downscale"
    THEN c[2] * CELL_SIZE_M = s.x /\ c[1] * CELL_SIZE_M = s.y
    ELSE IdwLat(c) = s.lat /\ IdwLon(c) = s.lon
\* the floored squared distance from c to s, in units of the distance floor
FlooredDistSq(c, s) ==
    IF fuse_op = "downscale" THEN DownscalerDistSq(c, s) ELSE IdwDistSq(c, s)
\* 10 * floor * sum(|v_i - v| / d_i^2) over the other kept readings, rounded
\* up, with one tenth for the rounding of the grid
ExactMatchBound(c, k) ==
    1 + SumSeq([i \in 1 .. Len(fuse_kept) |->
                  IF i = k THEN 0
                  ELSE (10 * Abs(fuse_kept[i].val - fuse_kept[k].val)) \div FlooredDistSq(c, fuse_kept[i]) + 1])

\* C21: at a cell lying exactly on one kept reading (and on no other) the
\* fused rainfall equals that reading up to an error proportional to the
\* distance floor, floor * sum(|v_i - v| / d_i^2), whatever the other
\* readings are
C21_ExactMatch ==
    (fuse_op \in {"downscale", "idw"} /\ ~fuse_raised)
      => \A c \in Cells : \A k \in 1 .. Len(fuse_kept) :
           (/\ Coincides(c, fuse_kept[k])
            /\ \A i \in 1 .. Len(fuse_kept) : i # k => ~Coincides(c, fuse_kept[i]))
             => Abs(fuse_grid[c] - 10 * fuse_kept[k].val) <= ExactMatchBound(c, k)

\* the messages generate_message has returned
SmsMessages == {sms_outbox[i] : i \in 1 .. Len(sms_outbox)}

\* C22: when the formatted message would exceed 160 characters,
\* generate_message shortens the zone list and nothing else: the district
\* code, time, sector id, coordinates and info code are in the message in
\* full; a message that fits is returned with its zone list untouched
C22_TruncationOrder ==
    \A m \in SmsMessages :
        /\ m.len = BaseMsgLen(m.district, m.ts, m.sector, m.lat, m.lon, m.zones, m.url)
        /\ m.cut <=> BaseMsgLen(m.district, m.ts, m.sector, m.lat, m.lon, m.zones_in, m.url) > SmsLimit
        /\ m.cut => m.zones < m.zones_in
        /\ ~m.cut => m.zones = m.zones_in

\* the cell of the two fusers that does not share its measurements
OtherCell == CHOOSE i \in KCells : i # kf_cell

\* C23: no cross-cell coupling in the Kalman fuser: after any sequence of
\* update calls the estimate x and the covariance P of a cell depend only on
\* that cell's own measurements and on the source types; two fusers given the
\* same source types and the same measurements in the cell, and different
\* measurements in the other cell, agree on the cell's x and P.
C23_NoCrossCellCoupling ==
    /\ kf_x[kf_cell] = kf2_x[kf_cell]
    /\ kf_P[kf_cell] = kf2_P[kf_cell]

\* two updates made, the other cell's estimates differing between the fusers
\* and the shared cell's estimate moved by its measurements
C23_Witness ==
    /\ Len(kf_sources) >= 2
    /\ kf_x[OtherCell] # kf2_x[OtherCell]
    /\ kf_x[kf_cell] # x0[kf_cell]
    /\ kf_x[kf_cell] = kf2_x[kf_cell]
    /\ kf_sources[1] # kf_sources[2]

\* C30: Kalman state validity: after any sequence of update calls with any
\* mix of source types every cell has P > 0 and the gain used lies strictly
\* between 0 and 1; P does not depend on the measurements (the cells of a
\* fuser, and two fusers given different measurements, have the same P); a
\* source type other than 'satellite' or 'radar' uses the gauge noise 0.5.
C30_KalmanValidity ==
    \A i \in KCells :
        /\ kf_P[i] > 0
        /\ kf_P[i] = kf2_P[i]
        /\ kf_P[i] = kf_P[kf_cell]
        /\ kf_updated =>
             /\ 0 < kf_prev.K[i]
             /\ kf_prev.K[i] < Scale
             /\ source_type \notin {"satellite", "radar"} =>
                  kf_prev.K[i] = RoundDiv((kf_prev.P[i] + Scale \div 2) * Scale,
                                          kf_prev.P[i] + Scale \div 2 + Scale \div 2)

\* a satellite update followed by an update of a source type the code does not
\* name, the two fusers having been given different measurements
C30_Witness ==
    /\ Len(kf_sources) = 2
    /\ kf_sources[1] = "satellite"
    /\ kf_sources[2] = "lidar"
    /\ measurement_grid[OtherCell] # measurement_grid2[OtherCell]
    /\ kf_P[OtherCell] = kf2_P[OtherCell]
    /\ kf_P[kf_cell] < P0[kf_cell]

\* self.P of a fuser after n satellite updates
RECURSIVE PAfter(_)
PAfter(n) ==
    IF n = 0 THEN 10 * Scale
    ELSE CovarianceUpdate(KalmanGain(Predict(PAfter(n - 1)), R_sat), Predict(PAfter(n - 1)))

\* the requests whose update call has returned
PastUpdate == {r \in Requests : req_pc[r] \in {"l58", "200", "500"}}

\* C24: single-writer cycle discipline: with several /predict requests issued
\* concurrently against the shared runner no two update steps interleave, a
\* request reads x and P left by the same step, and each predict cycle applies
\* exactly one update step: whenever no update is in progress x and P have
\* been assigned once per finished update and P is the covariance after that
\* many steps.
C24_SingleWriter ==
    /\ \A r, q \in Requests :
           (req_pc[r] \in InUpdate /\ req_pc[q] \in InUpdate) => r = q
    /\ \A r \in Requests :
           req_pc[r] \in {"l38", "l50", "l58", "200", "500"} => req_local[r].xv = req_local[r].pv
    /\ (\A r \in Requests : req_pc[r] \notin InUpdate) =>
           /\ kf_ver.x = Cardinality(PastUpdate)
           /\ kf_ver.P = Cardinality(PastUpdate)
           /\ \A i \in KCells : kf_P[i] = PAfter(Cardinality(PastUpdate))

\* a request has assigned self.x and not yet self.P while another request is
\* waiting to be handled
C24_Witness ==
    \E r, q \in Requests :
        /\ req_pc[r] = "l50"
        /\ req_pc[q] = "pending"
        /\ kf_ver.x = kf_ver.P + 1

\* C25: the status record write at the end of run_cycle is atomic with
\* respect to the dashboard reader: a GET /api/status never observes an empty
\* or partially written system_status.json; once a file exists it returns
\* the record of the cycle written last before the write in progress, or the
\* record of that write.
C25_AtomicStatusWrite ==
    /\ dash_resp.status # "FILE_ERROR"
    /\ dash_resp.status = "record" => dash_resp.cycle \in {dash_resp.begun - 1, dash_resp.begun}

\* consecutive entries of alert_outbox are at least the cooldown apart
OutboxSpaced ==
    \A i \in 1 .. Len(alert_outbox) - 1 :
        alert_outbox[i + 1].ts - alert_outbox[i].ts >= ALERT_COOLDOWN_SECONDS

\* a step leaves alert_outbox as it is or appends one entry to it
OutboxGrowsByOne ==
    \/ alert_outbox' = alert_outbox
    \/ /\ Len(alert_outbox') = Len(alert_outbox) + 1
       /\ SubSeq(alert_outbox', 1, Len(alert_outbox)) = alert_outbox

ReturnedFalse == result'.called /\ ~result'.alert

\* the call of the step found a qualifying cluster at least the cooldown after
\* the message sent last
DueAgain ==
    /\ result'.called
    /\ ClusterQualifies(fill')
    /\ alert_outbox # <<>>
    /\ clock' - alert_outbox[Len(alert_outbox)].ts >= ALERT_COOLDOWN_SECONDS

\* C27: a suppressed or non-triggering call leaves the alert state unchanged:
\* when check_alert_conditions returns (False, "COOLDOWN") or (False, ""),
\* last_alert_time and alert_outbox are unchanged, so suppression never
\* extends the cooldown: a call with a qualifying risk map at least 3600 s
\* after the message sent last sends an alert.
C27_SuppressionKeepsState ==
    [][/\ ReturnedFalse => UNCHANGED <<last_alert_time, alert_outbox>>
       /\ DueAgain => /\ result'.alert
                      /\ Len(alert_outbox') = Len(alert_outbox) + 1
                      /\ last_alert_time' = clock']_vars

\* an alert sent 3600 s after the one before it, the call in between having
\* been suppressed
C27_Witness ==
    /\ Len(alert_outbox) >= 2
    /\ prev_text = "COOLDOWN"
    /\ result.alert
    /\ last_alert_time = clock
    /\ clock - alert_outbox[Len(alert_outbox) - 1].ts = ALERT_COOLDOWN_SECONDS

\* the size of the largest 4-connected component of mask (0 if mask is empty)
LargestComponent(mask) ==
    CHOOSE n \in 0 .. Cardinality(mask) :
        /\ \A K \in Components(mask) : Cardinality(K) <= n
        /\ mask # {} => \E K \in Components(mask) : Cardinality(K) = n

\* C28: flood-fill correctness in check_alert_conditions: the flood fill
\* terminates, visits every high-risk cell exactly once (the sizes of the
\* clusters it starts sum to the number of high-risk cells), and the cluster
\* size passed to trigger_alert and written in the message is the size of the
\* largest 4-connected component of high-risk cells.
C28_FloodFill ==
    (result.called /\ fill.ran) =>
        /\ fill.visited = fill.points
        /\ SumSeq(fill.sizes) = Cardinality(fill.points)
        /\ fill.max_cluster_size = LargestComponent(fill.points)
        /\ ClusterQualifies(fill) => result.msg.text # ""
        /\ result.alert => result.msg.cluster_size = LargestComponent(fill.points)

\* the flood fill ran over a component of exactly ten cells, not the whole
\* grid, and the alert was sent with that size
C28_Witness ==
    /\ result.called
    /\ fill.ran
    /\ fill.sizes = <<10>>
    /\ result.alert
    /\ result.msg.cluster_size = 10
    /\ fill.points # Cells

\* C29: cells outside the static susceptibility mask (slope below
\* SLOPE_THRESHOLD_DEG) always receive risk exactly 0 from compute_risk,
\* whatever the rainfall, and every masked-in cell receives a risk in [0, 1];
\* hence no alert cluster of run_cycle contains a cell with slope below the
\* threshold, and a grid with no cell at or above the threshold never
\* produces an alert.
C29_MaskedRisk ==
    result.called =>
        /\ \A c \in Cells : slope_npy[c] < SLOPE_THRESHOLD_DEG => risk_map[c] = 0
        /\ \A c \in Cells : slope_npy[c] >= SLOPE_THRESHOLD_DEG =>
               (0 <= risk_map[c] /\ risk_map[c] <= 100)
        /\ \A c \in fill.points : slope_npy[c] >= SLOPE_THRESHOLD_DEG
        /\ (\A c \in Cells : slope_npy[c] < SLOPE_THRESHOLD_DEG) =>
               (~result.alert /\ alert_outbox = <<>>)
================================================================================
